---- MODULE Spec2Model ----
(***************************************************************************)
(* Document extraction pipeline of lib/documents.js (src/unnamed/part_006): *)
(* kind detection, the PDF fallback chain (pdf.js -> adaptive OCR patch ->   *)
(* acceptance -> remote service -> full OCR -> unreadable), and the DOCX,    *)
(* text, image and binary paths of readFileContent.                           *)
(*                                                                           *)
(* Strings are sequences.  File names and MIME types are sequences of        *)
(* one-character strings; buffers are sequences of byte values; extracted    *)
(* text is a sequence of tokens, a token being either one whitespace         *)
(* character or a run of already-normalised text with known length,          *)
(* Cyrillic count, digit count and character set.                            *)
(***************************************************************************)
EXTENDS Integers, Sequences, FiniteSets, TLC

\* Largest number of physical pages of a PDF document in the model.
MaxPages == 3

\* ------------------------------------------------------------------------
\* Program constants
\* ------------------------------------------------------------------------
MIN_USEFUL_TEXT_LENGTH == 200
\* OCR_QUALITY_THRESHOLD = 0.12, in thousandths (computeQuality rounds to 3 places)
OCR_QUALITY_THRESHOLD == 120
\* minimum trimmed length of a usable remote / OCR text
MIN_FALLBACK_TEXT_LENGTH == 40
\* default pageLimit of ocrPdf
OCR_PAGE_LIMIT == 10

\* ------------------------------------------------------------------------
\* Generic sequence helpers
\* ------------------------------------------------------------------------
Min(a, b) == IF a < b THEN a ELSE b

Range(s) == { s[i] : i \in 1..Len(s) }

\* String.prototype.startsWith
StartsWith(s, p) == Len(s) >= Len(p) /\ SubSeq(s, 1, Len(p)) = p

\* String.prototype.endsWith
EndsWith(s, p) == Len(s) >= Len(p) /\ SubSeq(s, Len(s) - Len(p) + 1, Len(s)) = p

\* String.prototype.includes
Includes(s, p) == \E i \in 1..(Len(s) + 1) :
                     i + Len(p) - 1 <= Len(s) /\ SubSeq(s, i, i + Len(p) - 1) = p

UpperChars == <<"A", "B", "C", "D", "E", "F", "G", "H", "I", "J", "K", "L", "M",
                "N", "O", "P", "Q", "R", "S", "T", "U", "V", "W", "X", "Y", "Z">>
LowerChars == <<"a", "b", "c", "d", "e", "f", "g", "h", "i", "j", "k", "l", "m",
                "n", "o", "p", "q", "r", "s", "t", "u", "v", "w", "x", "y", "z">>

LowerChar(c) == IF \E i \in 1..26 : UpperChars[i] = c
                  THEN LowerChars[CHOOSE i \in 1..26 : UpperChars[i] = c]
                  ELSE c

\* String.prototype.toLowerCase
ToLowerCase(s) == [i \in 1..Len(s) |-> LowerChar(s[i])]

\* ------------------------------------------------------------------------
\* Kind detection
\* ------------------------------------------------------------------------
\* new Uint8Array(buffer.slice(0, 8))[i]; -1 stands for undefined
ByteAt(buffer, i) == IF i + 1 <= Len(buffer) /\ i < 8 THEN buffer[i + 1] ELSE -1

ExtPdf  == <<".", "p", "d", "f">>
ExtDocx == <<".", "d", "o", "c", "x">>
TextExts == { <<".", "t", "x", "t">>, <<".", "m", "d">>, <<".", "c", "s", "v">>,
              <<".", "j", "s", "o", "n">>, <<".", "l", "o", "g">> }
StrPdf == <<"p", "d", "f">>
StrWordprocessingml == <<"w", "o", "r", "d", "p", "r", "o", "c", "e", "s", "s",
                         "i", "n", "g", "m", "l">>
StrTextSlash == <<"t", "e", "x", "t", "/">>
StrImageSlash == <<"i", "m", "a", "g", "e", "/">>

\* detectFileKind with the docx rule tried before the pdf rule
detectFileKind_DocxFirst(file, buffer) ==
  LET name == ToLowerCase(file.name)
      type == ToLowerCase(file.type)
  IN  IF EndsWith(name, ExtDocx) \/ Includes(type, StrWordprocessingml)
         \/ (ByteAt(buffer, 0) = 80 /\ ByteAt(buffer, 1) = 75)
        THEN "docx"
      ELSE IF Includes(type, StrPdf) \/ EndsWith(name, ExtPdf)
         \/ (ByteAt(buffer, 0) = 37 /\ ByteAt(buffer, 1) = 80)
        THEN "pdf"
      ELSE IF StartsWith(type, StrTextSlash) \/ (\E e \in TextExts : EndsWith(name, e))
        THEN "text"
      ELSE IF StartsWith(type, StrImageSlash)
        THEN "image"
      ELSE "binary"

detectFileKind(file, buffer) ==
  LET name == ToLowerCase(file.name)
      type == ToLowerCase(file.type)
  IN  IF Includes(type, StrPdf) \/ EndsWith(name, ExtPdf)
         \/ (ByteAt(buffer, 0) = 37 /\ ByteAt(buffer, 1) = 80)
        THEN "pdf"
      ELSE IF EndsWith(name, ExtDocx) \/ Includes(type, StrWordprocessingml)
         \/ (ByteAt(buffer, 0) = 80 /\ ByteAt(buffer, 1) = 75)
        THEN "docx"
      ELSE IF StartsWith(type, StrTextSlash) \/ (\E e \in TextExts : EndsWith(name, e))
        THEN "text"
      ELSE IF StartsWith(type, StrImageSlash)
        THEN "image"
      ELSE "binary"

\* ------------------------------------------------------------------------
\* Text: a sequence of tokens [k, n].  "sp" and "nl" are one whitespace
\* character each; "tag" n is the marker <<<PAGE n>>>; every other kind is a
\* run of normalised text (no leading, trailing or repeated whitespace) that
\* belongs to physical page n of the document (or to the remote answer).
\* "cyr", "digit", "latin" and "xy" are runs of n characters: n distinct
\* Cyrillic letters, the digits 1, 2, ... in turn, n distinct Latin letters,
\* the letters x and y in turn.  "upper" is a run of upper-case Latin letters
\* of paragraph n; every other run of text has lower-case letters in it.
\* ------------------------------------------------------------------------
SP == [k |-> "sp", n |-> 0]
NL == [k |-> "nl", n |-> 0]
Tag(i) == [k |-> "tag", n |-> i]
Run(kind, p) == [k |-> kind, n |-> p]

IsWs(t) == t.k \in {"sp", "nl"}

\* number of decimal digits of a positive page number
Digits(i) == IF i < 10 THEN 1 ELSE IF i < 100 THEN 2 ELSE 3

\* length in characters of a token
TokLen(t) ==
  CASE t.k \in {"sp", "nl"} -> 1
    [] t.k = "tag"      -> 11 + Digits(t.n)
    [] t.k = "clean"    -> 600
    [] t.k = "mixed"    -> 30
    [] t.k = "short"    -> 30
    [] t.k = "ocr"      -> 60
    [] t.k = "ocrshort" -> 12
    [] t.k = "srv"      -> 300
    [] t.k = "srvshort" -> 10
    [] t.k = "upper"    -> 12
    [] t.k \in {"cyr", "digit", "latin", "xy"} -> t.n
    [] OTHER            -> 1

\* number of characters of a token matching /[А-Яа-яЁё]/
TokCyr(t) ==
  CASE t.k = "mixed" -> 5
    [] t.k = "srv"   -> 100
    [] t.k = "cyr"   -> t.n
    [] OTHER         -> 0

\* number of characters of a token matching /\d/
TokDigits(t) ==
  CASE t.k = "tag"   -> Digits(t.n)
    [] t.k = "clean" -> 4
    [] t.k = "digit" -> t.n
    [] OTHER         -> 0

\* the distinct characters of a token, as character codes
TokChars(t) ==
  CASE t.k = "sp"       -> {0}
    [] t.k = "nl"       -> {1}
    [] t.k = "tag"      -> {2, 3, 4, 5, 6, 7, 0, 50 + t.n}
    [] t.k = "clean"    -> 10..35 \cup {0} \cup 50..53
    [] t.k = "mixed"    -> 10..20 \cup {0} \cup 40..44
    [] t.k = "short"    -> 10..20 \cup {0}
    [] t.k = "ocr"      -> 10..25 \cup {0}
    [] t.k = "ocrshort" -> 10..17
    [] t.k = "srv"      -> 10..30 \cup {0} \cup 40..49
    [] t.k = "srvshort" -> 10..16
    [] t.k = "upper"    -> 60..68
    [] t.k = "cyr"      -> 100..(99 + t.n)
    [] t.k = "digit"    -> 200..(199 + Min(t.n, 10))
    [] t.k = "latin"    -> 300..(299 + t.n)
    [] t.k = "xy"       -> 300..(299 + Min(t.n, 2))
    [] OTHER            -> {9}

\* text.length
RECURSIVE StrLen(_)
StrLen(s) == IF s = <<>> THEN 0 ELSE TokLen(Head(s)) + StrLen(Tail(s))

\* (text.match(/[А-Яа-яЁё]/g) || []).length
RECURSIVE CyrCount(_)
CyrCount(s) == IF s = <<>> THEN 0 ELSE TokCyr(Head(s)) + CyrCount(Tail(s))

\* (text.match(/\d/g) || []).length
RECURSIVE DigitCount(_)
DigitCount(s) == IF s = <<>> THEN 0 ELSE TokDigits(Head(s)) + DigitCount(Tail(s))

\* new Set(text.split('')).size
UniqueChars(s) == Cardinality(UNION { TokChars(s[i]) : i \in 1..Len(s) })

RECURSIVE DropLeadingWs(_)
DropLeadingWs(s) == IF s # <<>> /\ IsWs(Head(s)) THEN DropLeadingWs(Tail(s)) ELSE s

RECURSIVE DropTrailingWs(_)
DropTrailingWs(s) ==
  IF s # <<>> /\ IsWs(s[Len(s)]) THEN DropTrailingWs(SubSeq(s, 1, Len(s) - 1)) ELSE s

\* String.prototype.trim
Trim(s) == DropTrailingWs(DropLeadingWs(s))

\* text.replace(/\s+/g, ' ')
RECURSIVE CollapseWs(_)
CollapseWs(s) ==
  IF s = <<>> THEN <<>>
  ELSE IF IsWs(Head(s)) THEN <<SP>> \o CollapseWs(DropLeadingWs(s))
  ELSE <<Head(s)>> \o CollapseWs(Tail(s))

\* text.replace(/\s+/g, ' ').trim()
Normalize(s) == Trim(CollapseWs(s))

\* Array.prototype.join
RECURSIVE Join(_, _)
Join(parts, sep) ==
  IF parts = <<>> THEN <<>>
  ELSE IF Len(parts) = 1 THEN parts[1]
  ELSE parts[1] \o sep \o Join(Tail(parts), sep)

\* Array.prototype.filter(Boolean) on an array of strings
RECURSIVE FilterNonEmpty(_)
FilterNonEmpty(parts) ==
  IF parts = <<>> THEN <<>>
  ELSE IF Head(parts) = <<>> THEN FilterNonEmpty(Tail(parts))
  ELSE <<Head(parts)>> \o FilterNonEmpty(Tail(parts))

\* ------------------------------------------------------------------------
\* JavaScript numbers.  A non-negative Number is [n, s]: the natural number
\* whose digits in base 2^LimbBits are n (least significant first, the last
\* digit non-zero) divided by 2^s.  Every operation computes the exact result
\* and rounds it to 53 significant binary digits, to nearest, ties to even.
\* ------------------------------------------------------------------------
MantissaBits == 53

LimbBits == 10

Limb == 2 ^ LimbBits

RECURSIVE BitsOf(_)
BitsOf(k) == IF k = 0 THEN <<>> ELSE <<k % Limb>> \o BitsOf(k \div Limb)

RECURSIVE NatOf(_)
NatOf(bits) == IF bits = <<>> THEN 0 ELSE Head(bits) + Limb * NatOf(Tail(bits))

\* the number of binary digits of a digit
RECURSIVE Width(_)
Width(k) == IF k = 0 THEN 0 ELSE 1 + Width(k \div 2)

\* the number of binary digits of bits
BitLength(bits) ==
  IF bits = <<>> THEN 0 ELSE LimbBits * (Len(bits) - 1) + Width(bits[Len(bits)])

\* binary digit i (from 1) of bits
BitAt(bits, i) ==
  LET w == (i - 1) \div LimbBits
  IN  IF w + 1 > Len(bits) THEN 0 ELSE (bits[w + 1] \div (2 ^ ((i - 1) % LimbBits))) % 2

\* bits without its most significant zero digits
RECURSIVE TrimBits(_)
TrimBits(bits) ==
  IF bits = <<>> \/ bits[Len(bits)] # 0 THEN bits ELSE TrimBits(SubSeq(bits, 1, Len(bits) - 1))

\* bits * 2^k
ShiftBits(bits, k) ==
  LET w == k \div LimbBits
      b == k % LimbBits
      at(i) == IF i >= 1 /\ i <= Len(bits) THEN bits[i] ELSE 0
  IN  TrimBits([i \in 1..(Len(bits) + w + 1) |->
              IF i <= w THEN 0
              ELSE ((at(i - w) * (2 ^ b)) % Limb) + (at(i - w - 1) \div (2 ^ (LimbBits - b)))])

\* bits \div 2^k
DropBits(bits, k) ==
  LET w == k \div LimbBits
      b == k % LimbBits
      at(i) == IF i >= 1 /\ i <= Len(bits) THEN bits[i] ELSE 0
  IN  IF Len(bits) <= w THEN <<>>
      ELSE TrimBits([i \in 1..(Len(bits) - w) |->
                   (at(i + w) \div (2 ^ b)) + ((at(i + w + 1) % (2 ^ b)) * (2 ^ (LimbBits - b)))])

RECURSIVE AddBits(_, _, _)
AddBits(a, b, carry) ==
  IF a = <<>> /\ b = <<>> THEN BitsOf(carry)
  ELSE LET t == (IF a = <<>> THEN 0 ELSE Head(a)) + (IF b = <<>> THEN 0 ELSE Head(b)) + carry
       IN  <<t % Limb>> \o AddBits(IF a = <<>> THEN a ELSE Tail(a),
                                    IF b = <<>> THEN b ELSE Tail(b), t \div Limb)

\* bits * k + carry for k > 0
RECURSIVE MulBits(_, _, _)
MulBits(a, k, carry) ==
  IF a = <<>> THEN BitsOf(carry)
  ELSE LET t == Head(a) * k + carry
       IN  <<t % Limb>> \o MulBits(Tail(a), k, t \div Limb)

\* a < b
RECURSIVE LessBits(_, _)
LessBits(a, b) ==
  IF Len(a) # Len(b) THEN Len(a) < Len(b)
  ELSE IF a = <<>> THEN FALSE
  ELSE IF a[Len(a)] # b[Len(b)] THEN a[Len(a)] < b[Len(b)]
  ELSE LessBits(SubSeq(a, 1, Len(a) - 1), SubSeq(b, 1, Len(b) - 1))

\* the Number nearest to n / 2^s (plus a non-zero part below the last digit
\* of n when sticky)
RoundNumber(n, s, sticky) ==
  LET d == BitLength(n) - MantissaBits
  IN  IF d <= 0 THEN [n |-> n, s |-> s]
      ELSE LET kept == DropBits(n, d)
               rest == sticky \/ \E i \in 1..(d - 1) : BitAt(n, i) = 1
               up == BitAt(n, d) = 1 /\ (rest \/ BitAt(kept, 1) = 1)
           IN  [n |-> IF up THEN AddBits(kept, <<1>>, 0) ELSE kept, s |-> s - d]

\* long division: digits of the quotient are produced until it has more
\* binary digits than a Number keeps, r is the remainder still to divide
RECURSIVE DivideFrom(_, _, _, _)
DivideFrom(r, q, n, s) ==
  IF r = 0 \/ BitLength(n) >= MantissaBits + 2 THEN RoundNumber(n, s, r # 0)
  ELSE LET digit == (r * Limb) \div q
       IN  DivideFrom((r * Limb) % q, q,
                      IF n = <<>> /\ digit = 0 THEN n ELSE <<digit>> \o n, s + LimbBits)

\* p / q for integers p >= 0 and q > 0; also the value of the decimal literal p/q
Divide(p, q) == DivideFrom(p % q, q, BitsOf(p \div q), 0)

\* x * k for an integer k >= 0
Times(x, k) == IF k = 0 THEN Divide(0, 1) ELSE RoundNumber(MulBits(x.n, k, 0), x.s, FALSE)

\* x + y
Plus(x, y) ==
  LET s == IF x.s > y.s THEN x.s ELSE y.s
  IN  RoundNumber(AddBits(ShiftBits(x.n, s - x.s), ShiftBits(y.n, s - y.s), 0), s, FALSE)

\* x < y
Less(x, y) ==
  LET s == IF x.s > y.s THEN x.s ELSE y.s
  IN  LessBits(ShiftBits(x.n, s - x.s), ShiftBits(y.n, s - y.s))

\* Math.min
MinNumber(x, y) == IF Less(y, x) THEN y ELSE x

\* Number(x.toFixed(3)) in thousandths: the integer nearest to 1000 x, the
\* larger one of two
ToFixed3(x) ==
  LET m == IF x.n = <<>> THEN <<>> ELSE MulBits(x.n, 1000, 0)
  IN  NatOf(DropBits(m, x.s)) + (IF x.s >= 1 THEN BitAt(m, x.s) ELSE 0)

\* ------------------------------------------------------------------------
\* Quality, page segments and page meta
\* ------------------------------------------------------------------------
\* lines 626-628 on the counts: lengthScore = min(1, len/4000), cyrillicScore =
\* min(0.6, cyr/len), result Number((lengthScore + cyrillicScore).toFixed(3)) in
\* thousandths.  1000 * (lengthScore + cyrillicScore) is exactly num / den; the
\* sum of the two Numbers differs from it by less than 2^-40, so unless
\* num / den lies exactly halfway between two integers the result is the
\* integer nearest to num / den.
\* A text without Cyrillic letters scores lengthScore + 0 = len / 4000; the
\* results for the lengths below 4000 that lie halfway are tabulated.
lengthQuality == [len \in {l \in 1..3999 : l % 4 = 2} |-> ToFixed3(Divide(len, 4000))]

qualityOfCounts(len, cyr) ==
  LET num == Min(4000, len) * len + Min(2400 * len, 4000 * cyr)
      den == 4 * len
      halfway == (2 * num) % den = 0 /\ ((2 * num) \div den) % 2 = 1
  IN  IF halfway /\ cyr = 0 /\ len < 4000 THEN lengthQuality[len]
      ELSE IF halfway
        THEN ToFixed3(Plus(MinNumber(Divide(1, 1), Divide(len, 4000)),
                           MinNumber(Divide(6, 10), Divide(cyr, len))))
        ELSE (2 * num + den) \div (2 * den)

computeQuality(text) ==
  LET cleaned == Normalize(text)
  IN  IF text = <<>> \/ cleaned = <<>> THEN 0
      ELSE qualityOfCounts(StrLen(cleaned), CyrCount(cleaned))

normalizePageSegments(segments, fallbackText) ==
  LET cleaned == FilterNonEmpty([i \in 1..Len(segments) |-> Normalize(segments[i])])
      fallback == Normalize(fallbackText)
  IN  IF cleaned # <<>> THEN cleaned
      ELSE IF fallback # <<>> THEN <<fallback>> ELSE <<>>

buildPageTaggedText(pages) ==
  Join([i \in 1..Len(pages) |-> <<Tag(i), NL>> \o pages[i]], <<NL, NL>>)

\* layout: present = FALSE stands for null; pageCount is summary.pageCount
NoLayout == [present |-> FALSE, pageCount |-> 0]
Layout(n) == [present |-> TRUE, pageCount |-> n]

\* line 835-837: pageText.split(/\n+/).map(trim).filter(Boolean)
RECURSIVE plainLines(_, _)
plainLines(text, line) ==
  IF text = <<>> THEN FilterNonEmpty(<<Trim(line)>>)
  ELSE IF Head(text) = NL THEN FilterNonEmpty(<<Trim(line)>>) \o plainLines(Tail(text), <<>>)
  ELSE plainLines(Tail(text), Append(line, Head(text)))

\* no line is a heading
isHeading_Never(text) == FALSE

\* line 844: /^\d+(\.\d+)*\s/.test(text) || text === text.toUpperCase()
isHeading(text) ==
  \/ Len(text) >= 2 /\ text[1].k = "digit" /\ IsWs(text[2])
  \/ \A i \in 1..Len(text) : text[i].k \in {"upper", "digit", "sp", "tag"}

\* buildPlainLayout: one layout page per entry of pages, headings the texts of
\* the heading lines of each page
buildPlainLayout(pages) ==
  [ present |-> TRUE, pageCount |-> Len(pages),
    headings |-> [i \in 1..Len(pages) |-> SelectSeq(plainLines(pages[i], <<>>), isHeading)] ]

buildPageMeta(text, pagesInput, layout) ==
  LET layoutPageCount == IF layout.present THEN layout.pageCount ELSE 0
      pages == normalizePageSegments(pagesInput, text)
  IN  [ pages           |-> pages,
        pageCount       |-> IF Len(pages) # 0 THEN Len(pages) ELSE layoutPageCount,
        pageTaggedText  |-> buildPageTaggedText(pages),
        layoutPageCount |-> layoutPageCount,
        layout          |-> layout,
        ocrPatchedPages |-> <<>> ]

\* line 1158 with line 1164: score >= 12 for score = length / 80 +
\* cyrillic * 0.4 + digits * 0.05 + uniqueChars * 0.1.  80 times the exact sum
\* is the integer exact80; the sum of Numbers differs from the exact sum by
\* less than 2^-40, so it is compared as Numbers only when exact80 = 960.
softScoreReaches12(length, cyrillic, digits, uniqueChars) ==
  LET exact80 == length + 32 * cyrillic + 4 * digits + 8 * uniqueChars
      score == Plus(Plus(Plus(Divide(length, 80), Times(Divide(4, 10), cyrillic)),
                         Times(Divide(5, 100), digits)),
                    Times(Divide(1, 10), uniqueChars))
  IN  IF exact80 # 960 THEN exact80 > 960
      ELSE ~Less(score, Divide(12, 1))

\* evaluateSoftPdfAcceptance(...).readable
evaluateSoftPdfAcceptance(text) ==
  LET cleaned == Normalize(text)
      length == StrLen(cleaned)
      cyrillic == CyrCount(cleaned)
      digits == DigitCount(cleaned)
      uniqueChars == UniqueChars(cleaned)
  IN  IF cleaned = <<>> THEN FALSE
      ELSE \/ length >= MIN_USEFUL_TEXT_LENGTH
           \/ (length >= 120 /\ cyrillic > 40)
           \/ (length >= 120 /\ digits > 30)
           \/ (length >= 70 /\ cyrillic >= 20 /\ digits >= 2)
           \/ softScoreReaches12(length, cyrillic, digits, uniqueChars)

\* ------------------------------------------------------------------------
\* State of one run of readFileContent
\* ------------------------------------------------------------------------
VARIABLES
  pc,           \* position of the run: the stage that executes next
  file,         \* the File handed in: [given, name, type]
  buffer,       \* its bytes
  doc,          \* what pdf.js finds in the buffer: [ok, layer]
  env,          \* the host: [canvas, tesseract]
  trace,        \* the trace array of this run
  detectedKind, \* result of detectFileKind
  pdfResult,    \* result object of renderPdfWithPdfjs
  pdfMeta,      \* result object of buildPageMeta on the PDF path
  result,       \* the value readFileContent resolves with
  hist,         \* history of this run (not program state)
  fn            \* argument and value of a library function called on its own

\* the variables of a run of readFileContent
runVars == <<pc, file, buffer, doc, env, trace, detectedKind, pdfResult, pdfMeta, result, hist>>

vars == <<runVars, fn>>

\* ------------------------------------------------------------------------
\* Inputs
\* ------------------------------------------------------------------------
FileNames == { <<>>,
               <<"a", ".", "p", "d", "f">>,
               <<"A", ".", "P", "D", "F">>,
               <<"a", ".", "d", "o", "c", "x">>,
               <<"a", ".", "t", "x", "t">> }

MimeTypes == { <<>>,
               <<"a", "p", "p", "l", "i", "c", "a", "t", "i", "o", "n", "/", "p", "d", "f">>,
               <<"a", "p", "p", "l", "i", "c", "a", "t", "i", "o", "n", "/", "v", "n", "d", ".",
                 "o", "p", "e", "n", "x", "m", "l", "f", "o", "r", "m", "a", "t", "s", "-",
                 "o", "f", "f", "i", "c", "e", "d", "o", "c", "u", "m", "e", "n", "t", ".",
                 "w", "o", "r", "d", "p", "r", "o", "c", "e", "s", "s", "i", "n", "g", "m", "l",
                 ".", "d", "o", "c", "u", "m", "e", "n", "t">>,
               <<"t", "e", "x", "t", "/", "p", "l", "a", "i", "n">>,
               <<"i", "m", "a", "g", "e", "/", "p", "n", "g">> }

\* "%PDF-", "PK\x03\x04", JPEG magic, two plain bytes, the empty file
PdfMagic == <<37, 80, 68, 70>>
ZipMagic == <<80, 75, 3, 4>>
Buffers == { PdfMagic \o <<45>>, ZipMagic, <<255, 216, 255>>, <<104, 105>>, <<>> }

NoFile == [given |-> FALSE, name |-> <<>>, type |-> <<>>]
Files == { [given |-> TRUE, name |-> n, type |-> t] : n \in FileNames, t \in MimeTypes }

\* text layer of one physical PDF page: no text (a scanned image), a short
\* Latin line, a short line with some Cyrillic, a full page of text; "broken"
\* is a page whose content stream page.getTextContent rejects
LayerKinds == {"none", "short", "mixed", "clean"}

BrokenDoc == [ok |-> FALSE, layer |-> <<>>]
Docs ==
  { [ok |-> TRUE, layer |-> l] : l \in UNION { [1..n -> LayerKinds] : n \in 1..MaxPages } }
  \cup UNION { { [ok |-> TRUE, layer |-> [p \in 1..n |-> IF p = k THEN "broken" ELSE "clean"]] :
                  k \in 1..n } : n \in 1..MaxPages }

Envs == { [canvas |-> TRUE,  tesseract |-> TRUE],
          [canvas |-> TRUE,  tesseract |-> FALSE],
          [canvas |-> FALSE, tesseract |-> FALSE] }

\* what tesseract.recognize does with one image: text of 60 characters, text
\* of 12 characters, no text, or a rejection
RecognizeOutcomes == {"long", "short", "empty", "throw"}

\* what rendering and recognising one PDF page does: page.render may reject
\* before recognition starts
OcrOutcomes == RecognizeOutcomes \cup {"renderfail"}

\* data.text recognised on physical page p
OcrText(outcome, p) ==
  CASE outcome = "long"  -> <<SP, Run("ocr", p), NL>>
    [] outcome = "short" -> <<Run("ocrshort", p)>>
    [] OTHER             -> <<>>

NoResult == [returned |-> FALSE]

NoMeta == [ pages |-> <<>>, pageCount |-> 0, pageTaggedText |-> <<>>,
            layoutPageCount |-> 0, layout |-> NoLayout, ocrPatchedPages |-> <<>> ]

NoPdfResult == [text |-> <<>>, pages |-> <<>>, layout |-> NoLayout]

\* no library function is being called on its own
NoFn == [op |-> "none"]

NoHist == [ stages |-> <<>>, structuralText |-> <<>>, prePatchPages |-> <<>>,
            paragraphs |-> <<>>, held |-> 0, docx |-> "none",
            lowQualityPages |-> <<>>, patches |-> <<>>, server |-> [kind |-> "none"],
            ocrText |-> <<>> ]

Init ==
  /\ pc = "start"
  /\ file \in Files \cup {NoFile}
  /\ buffer \in Buffers
  /\ doc \in Docs \cup {BrokenDoc}
  /\ (doc.ok => file.given /\ StartsWith(buffer, PdfMagic))
  /\ env \in Envs
  /\ (~file.given => buffer = <<>> /\ env.tesseract)
  /\ trace = <<>>
  /\ detectedKind = "unknown"
  /\ pdfResult = NoPdfResult
  /\ pdfMeta = NoMeta
  /\ result = NoResult
  /\ hist = NoHist
  /\ fn = NoFn

\* ------------------------------------------------------------------------
\* Trace and response
\* ------------------------------------------------------------------------
Entry(step, detail, status) == [step |-> step, detail |-> detail, status |-> status]

\* pushTrace
\* pushTrace that puts the entry in front (unshift)
pushTrace_Front(tr, step, detail, status) == <<Entry(step, detail, status)>> \o tr

\* lines 22-24: trace.push({ step, detail, status, at })
pushTrace(tr, step, detail, status) == Append(tr, Entry(step, detail, status))

\* buildResponse; hasPageMeta tells whether extraMeta carries the page meta
buildResponse(tr, kind, extractor, text, usedOcr, hasPageMeta, meta) ==
  [ returned    |-> TRUE,
    text        |-> text,
    kind        |-> kind,
    extractor   |-> extractor,
    usedOcr     |-> usedOcr,
    quality     |-> computeQuality(text),
    trace       |-> tr,
    hasPageMeta |-> hasPageMeta,
    meta        |-> meta ]

\* chooseText
chooseText(tr, kind, text, extractor, hasPageMeta, meta) ==
  buildResponse(tr, kind, extractor, text, extractor = "pdf-ocr", hasPageMeta, meta)

\* an awaited promise (fetch of line 1132, tesseract.recognize of lines 1025,
\* 1092 and 1605) that never settles: no timer and no abort signal is set, so
\* the run stays at the await with the trace tr written so far
neverSettles(tr) ==
  /\ pc' = "pending"
  /\ trace' = tr
  /\ UNCHANGED <<fn, file, buffer, doc, env, detectedKind, pdfResult, pdfMeta, result, hist>>

Stage(name) == [hist EXCEPT !.stages = Append(@, name)]

\* ------------------------------------------------------------------------
\* readFileContent: buffer acquisition and kind detection
\* ------------------------------------------------------------------------
\* lines 1212-1237: a missing file returns at once; a buffer that cannot be
\* read makes readFileContent throw
ReadBuffer ==
  /\ pc = "start"
  /\ \/ /\ ~file.given
        /\ trace' = pushTrace(trace, "input", "no file", "error")
        /\ result' = buildResponse(trace', "unknown", "none", <<>>, FALSE, FALSE, NoMeta)
        /\ pc' = "done"
     \/ /\ file.given
        /\ pc' = "detect"
        /\ UNCHANGED <<trace, result>>
     \/ /\ file.given
        /\ trace' = pushTrace(trace, "input", "cannot read", "error")
        /\ pc' = "thrown"
        /\ UNCHANGED result
  /\ hist' = Stage("input")
  /\ UNCHANGED <<fn, file, buffer, doc, env, detectedKind, pdfResult, pdfMeta>>

\* lines 1239-1254 and the dispatch on detectedKind; arrayBufferToBase64 may
\* throw, which readFileContent rethrows after a trace entry
DetectKind ==
  /\ pc = "detect"
  /\ detectedKind' = detectFileKind(file, buffer)
  /\ \/ /\ pc' = detectedKind'
        /\ UNCHANGED trace
     \/ /\ trace' = pushTrace(trace, "input", "cannot prepare file", "error")
        /\ pc' = "thrown"
  /\ hist' = Stage("detect")
  /\ UNCHANGED <<fn, file, buffer, doc, env, pdfResult, pdfMeta, result>>

\* ------------------------------------------------------------------------
\* DOCX and plain text
\* ------------------------------------------------------------------------
\* the w:p paragraphs of word/document.xml, each the concatenation of its w:t runs
DocxBodies == { <<>>,
                << <<SP>> >>,
                << <<Run("short", 1), SP>> >>,
                << <<Run("clean", 1)>>, <<>>, <<SP, Run("short", 3)>> >>,
                << <<Run("upper", 1)>>, <<Run("short", 2)>>, <<SP, Run("upper", 3), SP>> >>,
                << <<Run("digit", 1), SP, Run("short", 1)>>, <<Run("upper", 2), SP, Run("short", 2)>> >>,
                << <<Run("upper", 1), NL, Run("upper", 1)>>, <<Run("short", 2)>> >> }

\* extractDocx after the archive entry was read: lines 983-996
docxFromParagraphs(paragraphs) ==
  LET lines == FilterNonEmpty([i \in 1..Len(paragraphs) |-> Trim(paragraphs[i])])
      combined == Join(lines, <<NL>>)
      pages == <<combined>>
  IN  [text |-> combined, pages |-> pages, layout |-> buildPlainLayout(pages),
       lines |-> Len(lines)]

\* lines 1308-1315 with extractDocx (971-1001)
ExtractDocx ==
  /\ pc = "docx"
  /\ \/ \E paragraphs \in DocxBodies :
          /\ StartsWith(buffer, ZipMagic)
          /\ LET docx == docxFromParagraphs(paragraphs) IN
             /\ trace' = pushTrace(trace, "docx", "lines read", "info")
             /\ result' = chooseText(trace', detectedKind, docx.text, "docx", TRUE,
                                     buildPageMeta(docx.text, docx.pages, docx.layout))
             /\ hist' = [Stage("docx") EXCEPT !.paragraphs = paragraphs, !.docx = "read"]
     \/ \* word/document.xml is not well-formed: parseFromString does not
        \* throw, the error document it returns holds no w:p element
        /\ StartsWith(buffer, ZipMagic)
        /\ LET docx == docxFromParagraphs(<<>>) IN
           /\ trace' = pushTrace(trace, "docx", "lines read", "info")
           /\ result' = chooseText(trace', detectedKind, docx.text, "docx", TRUE,
                                   buildPageMeta(docx.text, docx.pages, docx.layout))
           /\ hist' = [Stage("docx") EXCEPT !.docx = "malformed"]
     \/ /\ StartsWith(buffer, ZipMagic)
        /\ trace' = pushTrace(trace, "docx", "word/document.xml not found", "warn")
        /\ result' = chooseText(trace', detectedKind, <<>>, "docx", TRUE,
                                buildPageMeta(<<>>, <<>>, NoLayout))
        /\ hist' = [Stage("docx") EXCEPT !.docx = "missing"]
     \/ /\ trace' = pushTrace(trace, "docx", "docx read error", "error")
        /\ result' = chooseText(trace', detectedKind, <<>>, "docx", TRUE,
                                buildPageMeta(<<>>, <<>>, NoLayout))
        /\ hist' = [Stage("docx") EXCEPT !.docx = "unreadable"]
  /\ pc' = "done"
  /\ UNCHANGED <<fn, file, buffer, doc, env, detectedKind, pdfResult, pdfMeta>>

\* what decodeTextBuffer can produce for a buffer
DecodedTexts(buf) ==
  IF buf = <<>> THEN { <<>> }
  ELSE { <<>>, <<Run("short", 1), NL>>, <<Run("clean", 1), NL, NL, Run("mixed", 2)>> }

\* lines 1317-1327
DecodeText ==
  /\ pc = "text"
  /\ \E text \in DecodedTexts(buffer) :
       LET pages == <<text>>
           layout == buildPlainLayout(pages)
       IN  /\ trace' = pushTrace(trace, "text", "decoding text file", "info")
           /\ result' = chooseText(trace', detectedKind, text, "text", TRUE,
                                   buildPageMeta(text, pages, layout))
  /\ pc' = "done"
  /\ hist' = Stage("text")
  /\ UNCHANGED <<fn, file, buffer, doc, env, detectedKind, pdfResult, pdfMeta>>

\* ------------------------------------------------------------------------
\* PDF: structural pass
\* ------------------------------------------------------------------------
\* item.str.trim() of the text items of physical page p (lines 882-908)
PageBlocks(kind, p) ==
  IF kind \in {"none", "broken"} THEN <<>> ELSE << <<Run(kind, p)>> >>

\* lines 922-927
PageText(blocks) == Normalize(Join(blocks, <<SP>>))

\* lines 928-930: the page text is collected
CollectPages(texts) == FilterNonEmpty(texts)

\* lines 869-877 and 965: getDocument or the getTextContent of any page
\* rejects, which the one try block of renderPdfWithPdfjs catches
pdfjsThrows(d) == ~d.ok \/ \E p \in 1..Len(d.layer) : d.layer[p] = "broken"

\* renderPdfWithPdfjs without its trace entry
renderPdfWithPdfjs(d) ==
  IF pdfjsThrows(d) THEN NoPdfResult
  ELSE LET texts == [p \in 1..Len(d.layer) |-> PageText(PageBlocks(d.layer[p], p))]
           pages == CollectPages(texts)
       IN  [text |-> Trim(Join(pages, <<NL>>)), pages |-> pages,
            layout |-> Layout(Len(d.layer))]

\* lines 1342-1348
RenderPdf ==
  /\ pc = "pdf"
  /\ pdfResult' = renderPdfWithPdfjs(doc)
  /\ pdfMeta' = buildPageMeta(pdfResult'.text, pdfResult'.pages, pdfResult'.layout)
  /\ trace' = IF pdfjsThrows(doc) THEN pushTrace(trace, "pdfjs", "pdf.js error", "error")
              ELSE IF pdfResult'.text # <<>>
                THEN pushTrace(trace, "pdfjs", "characters extracted", "info")
                ELSE pushTrace(trace, "pdfjs", "empty result", "info")
  /\ pc' = "patch"
  /\ hist' = [Stage("pdfjs") EXCEPT !.structuralText = pdfResult'.text]
  /\ UNCHANGED <<fn, file, buffer, doc, env, detectedKind, result>>

\* ------------------------------------------------------------------------
\* PDF: adaptive per-page OCR patch
\* ------------------------------------------------------------------------
Indices(n) == [i \in 1..n |-> i]

\* lines 1486-1490: the 1-based indices of the page entries scoring below threshold
lowQualityPagesOf(pages) ==
  LET Low(i) == computeQuality(pages[i]) < OCR_QUALITY_THRESHOLD
  IN  SelectSeq(Indices(Len(pages)), Low)

\* the page that ocrPdfPages renders and recognises for target pageNumber
\* (line 1083: pdfDoc.getPage(pageNumber))
RenderedPage(pageNumber) == pageNumber

\* one iteration of the loop of ocrPdfPages (lines 1078-1105) for target
\* pageNumber; acc = [results, trace, held], held the number of canvases
\* created (line 1085) whose width and height were not reset (lines 1099-1100):
\* the catch of line 1102 skips the reset
ocrOnePage(acc, pageNumber, outcome, numPages) ==
  IF pageNumber > numPages THEN acc
  ELSE IF outcome \in {"throw", "renderfail"}
    THEN [acc EXCEPT !.trace = pushTrace(@, "ocr-adaptive", "page failed", "warn"),
                     !.held = @ + 1]
  ELSE LET text == Normalize(OcrText(outcome, RenderedPage(pageNumber)))
       IN  IF text # <<>>
             THEN [acc EXCEPT !.results = Append(@, [page |-> pageNumber, text |-> text])]
             ELSE acc

RECURSIVE ocrPagesLoop(_, _, _, _)
ocrPagesLoop(acc, targets, out, numPages) ==
  IF targets = <<>> THEN acc
  ELSE ocrPagesLoop(ocrOnePage(acc, Head(targets), out[Head(targets)], numPages),
                    Tail(targets), out, numPages)

\* lines 1059-1065: the finite page numbers >= 1, without duplicates, ascending
\* (pagesToProcess is ascending and duplicate-free at its only call site)
ocrTargets(pagesToProcess) ==
  LET Valid(page) == page >= 1
  IN  SelectSeq(pagesToProcess, Valid)

\* ocrPdfPages (lines 1051-1115): [results, trace]; out gives the outcome of
\* tesseract.recognize for every target page
ocrPdfPages(tr, pagesToProcess, out, d, e) ==
  IF pagesToProcess = <<>> THEN [results |-> <<>>, trace |-> tr, held |-> 0]
  ELSE IF ~e.canvas
    THEN [results |-> <<>>, held |-> 0, trace |-> pushTrace(tr, "ocr-adaptive", "canvas unavailable", "warn")]
  ELSE IF ~e.tesseract
    THEN [results |-> <<>>, held |-> 0, trace |-> pushTrace(tr, "ocr-adaptive", "tesseract unavailable", "warn")]
  ELSE IF ~d.ok
    THEN [results |-> <<>>, held |-> 0, trace |-> pushTrace(tr, "ocr-adaptive", "page OCR error", "error")]
  ELSE IF ocrTargets(pagesToProcess) = <<>> THEN [results |-> <<>>, trace |-> tr, held |-> 0]
  ELSE LET r == ocrPagesLoop([results |-> <<>>, trace |-> tr, held |-> 0], ocrTargets(pagesToProcess),
                             out, Len(d.layer))
       IN  IF r.results # <<>>
             THEN [r EXCEPT !.trace = pushTrace(@, "ocr-adaptive", "additional OCR", "info")]
             ELSE r

\* lines 1499-1501: while (pages.length < pageNumber) pages.push('')
RECURSIVE PadPages(_, _)
PadPages(pages, n) == IF Len(pages) < n THEN PadPages(Append(pages, <<>>), n) ELSE pages

\* applyPatch writing at index pageNumber instead of pageNumber - 1
applyPatch_NextIndex(acc, patch) ==
  LET normalized == Normalize(patch.text)
  IN  IF normalized = <<>> THEN acc
      ELSE [ pages |-> [PadPages(acc.pages, patch.page + 1) EXCEPT ![patch.page + 1] = normalized],
             patchedPages |-> Append(acc.patchedPages, patch.page) ]

\* lines 1495-1519 for one entry of patches; acc = [pages, patchedPages]
applyPatch(acc, patch) ==
  LET normalized == Normalize(patch.text)
  IN  IF normalized = <<>> THEN acc
      ELSE [ pages |-> [PadPages(acc.pages, patch.page) EXCEPT ![patch.page] = normalized],
             patchedPages |-> Append(acc.patchedPages, patch.page) ]

RECURSIVE applyPatches(_, _)
applyPatches(acc, patches) ==
  IF patches = <<>> THEN acc
  ELSE applyPatches(applyPatch(acc, Head(patches)), Tail(patches))

\* patchedMeta that keeps the pageTaggedText computed before the patch
patchedMeta_StaleTags(meta, pages, patchedPages) ==
  [meta EXCEPT !.pages = pages,
               !.ocrPatchedPages = patchedPages,
               !.pageCount = IF Len(pages) # 0 THEN Len(pages) ELSE meta.layoutPageCount]

\* lines 1520-1524: what the patch stores in pdfMeta once pages were replaced
patchedMeta(meta, pages, patchedPages) ==
  [meta EXCEPT !.pages = pages,
               !.pageTaggedText = buildPageTaggedText(pages),
               !.ocrPatchedPages = patchedPages,
               !.pageCount = IF Len(pages) # 0 THEN Len(pages) ELSE meta.layoutPageCount]

\* lines 1486-1531
AdaptivePatch ==
  \/ /\ pc = "patch"
     /\ LET low == lowQualityPagesOf(pdfMeta.pages) IN
        \E out \in [Range(low) -> OcrOutcomes] :
          LET ocr == ocrPdfPages(trace, low, out, doc, env)
              done == applyPatches([pages |-> pdfMeta.pages, patchedPages |-> <<>>], ocr.results)
              touched == done.patchedPages # <<>>
          IN  /\ pdfMeta' = IF touched THEN patchedMeta(pdfMeta, done.pages, done.patchedPages)
                            ELSE pdfMeta
              /\ pdfResult' = IF touched
                                THEN [pdfResult EXCEPT !.pages = done.pages,
                                                       !.text = Join(done.pages, <<NL>>)]
                                ELSE pdfResult
              /\ trace' = IF touched
                            THEN pushTrace(ocr.trace, "ocr-adaptive", "pages replaced", "info")
                            ELSE ocr.trace
              /\ hist' = [Stage("patch") EXCEPT !.prePatchPages = pdfMeta.pages,
                                                !.lowQualityPages = low,
                                                !.patches = ocr.results,
                                                !.held = @ + ocr.held]
     /\ pc' = "accept"
     /\ UNCHANGED <<fn, file, buffer, doc, env, detectedKind, result>>
  \/ \* tesseract.recognize of line 1092 never settles
     /\ pc = "patch"
     /\ env.canvas /\ env.tesseract /\ doc.ok
     /\ \E i \in 1..Len(pdfMeta.pages) :
          i <= Len(doc.layer) /\ computeQuality(pdfMeta.pages[i]) < OCR_QUALITY_THRESHOLD
     /\ neverSettles(trace)

\* ------------------------------------------------------------------------
\* PDF: acceptance, remote service, full OCR
\* ------------------------------------------------------------------------
\* the structural text returned only when the acceptance predicate holds
StructuralTextReturned_OnlyReadable(text) == evaluateSoftPdfAcceptance(text)

\* lines 1536 and 1545: the structural text is returned when this holds
StructuralTextReturned(text) == text # <<>>

\* lines 1533-1546
AcceptPdf ==
  /\ pc = "accept"
  /\ LET trimmedPdfText == Trim(pdfResult.text)
         readable == evaluateSoftPdfAcceptance(trimmedPdfText)
     IN  \/ /\ StructuralTextReturned(trimmedPdfText)
            /\ trace' = IF readable THEN trace
                        ELSE pushTrace(trace, "pdfjs", "using text despite low score", "warn")
            /\ result' = chooseText(trace', detectedKind, trimmedPdfText,
                                    IF readable THEN "pdfjs" ELSE "pdfjs-soft", TRUE, pdfMeta)
            /\ pc' = "done"
         \/ /\ ~StructuralTextReturned(trimmedPdfText)
            /\ pc' = "server"
            /\ UNCHANGED <<trace, result>>
  /\ hist' = Stage("accept")
  /\ UNCHANGED <<fn, file, buffer, doc, env, detectedKind, pdfResult, pdfMeta>>

\* what the remote extraction service can answer.  kind "null": serverExtractText
\* returns null after the trace entry (step "server") with the given status;
\* kind "payload": the parsed JSON body
NullAnswers ==
  { [kind |-> "null", why |-> "fetch unavailable", status |-> "warn"],
    [kind |-> "null", why |-> "backend not configured", status |-> "warn"],
    [kind |-> "null", why |-> "response 404", status |-> "error"],
    [kind |-> "null", why |-> "response 500", status |-> "warn"],
    [kind |-> "null", why |-> "request error", status |-> "error"],
    [kind |-> "null", why |-> "malformed json", status |-> "error"] }

\* serverUnavailable leaving no trace entry
serverUnavailable_Silent(tr, answer) == tr

\* the trace entry serverExtractText leaves before it returns null
\* (lines 1119, 1124, 1137, 1144)
serverUnavailable(tr, answer) == pushTrace(tr, "server", answer.why, answer.status)

Payload(text, isString, hasPages, pages) ==
  [kind |-> "payload", text |-> text, textIsString |-> isString,
   hasPages |-> hasPages, pages |-> pages, extractor |-> ""]

PayloadAnswers ==
  { Payload(<<>>, TRUE, FALSE, <<>>),
    Payload(<<Run("srvshort", 1)>>, TRUE, FALSE, <<>>),
    Payload(<<SP, Run("srvshort", 1), SP>>, TRUE, TRUE, << <<Run("srvshort", 1)>> >>),
    Payload(<<SP, Run("srv", 1), NL>>, TRUE, FALSE, <<>>),
    Payload(<<Run("srv", 1), NL, Run("srv", 3)>>, TRUE, TRUE,
            << <<Run("srv", 1)>>, <<>>, <<Run("srv", 3), SP>> >>),
    Payload(<<Run("srv", 1)>>, FALSE, FALSE, <<>>),
    \* meta.extractor named by the service
    [Payload(<<SP, Run("srv", 1), NL>>, TRUE, FALSE, <<>>) EXCEPT !.extractor = "pdf-ocr"],
    [Payload(<<SP, Run("srv", 1), NL>>, TRUE, FALSE, <<>>) EXCEPT !.extractor = "image-ocr"] }

\* ServerTextUsable with the length comparison inverted
ServerTextUsable_Inverted(answer) ==
  /\ answer.kind = "payload"
  /\ answer.text # <<>>
  /\ StrLen(Trim(answer.text)) < MIN_FALLBACK_TEXT_LENGTH

\* line 1549: serverResult?.text && serverResult.text.trim().length >= 40
ServerTextUsable(answer) ==
  /\ answer.kind = "payload"
  /\ answer.text # <<>>
  /\ StrLen(Trim(answer.text)) >= MIN_FALLBACK_TEXT_LENGTH

\* lines 1550-1560: the response built from a usable remote answer
serverResponse(tr, kind, answer) ==
  LET serverPages == IF answer.hasPages THEN answer.pages ELSE <<answer.text>>
      serverLayout == buildPlainLayout(serverPages)
  IN  chooseText(tr, kind, answer.text,
                 IF answer.extractor # "" THEN answer.extractor ELSE "server-pymupdf", TRUE,
                 buildPageMeta(answer.text, serverPages, serverLayout))

\* lines 1548-1561 with serverExtractText (1117-1147)
ServerExtract ==
  \/ /\ pc = "server"
     /\ \/ \E answer \in NullAnswers :
             /\ trace' = serverUnavailable(trace, answer)
             /\ pc' = "ocr"
             /\ hist' = [Stage("server") EXCEPT !.server = answer]
             /\ UNCHANGED result
        \/ \E answer \in PayloadAnswers :
             /\ trace' = pushTrace(trace, "server",
                                   IF answer.text # <<>> THEN "server returned text"
                                   ELSE "server answered without text", "info")
             /\ hist' = [Stage("server") EXCEPT !.server = answer]
             /\ IF answer.text # <<>> /\ ~answer.textIsString
                  THEN \* TypeError: serverResult.text.trim is not a function
                       /\ pc' = "thrown"
                       /\ UNCHANGED result
                ELSE IF ServerTextUsable(answer)
                  THEN /\ result' = serverResponse(trace', detectedKind, answer)
                       /\ pc' = "done"
                ELSE /\ pc' = "ocr"
                     /\ UNCHANGED result
     /\ UNCHANGED <<fn, file, buffer, doc, env, detectedKind, pdfResult, pdfMeta>>
  \/ \* fetch of line 1132 never settles
     /\ pc = "server"
     /\ neverSettles(trace)

\* one iteration of the loop of ocrPdf (lines 1014-1039); acc = [texts, trace,
\* failed, held]; a rejected page.render leaves the loop through the outer
\* catch, past the reset of the canvas (lines 1036-1037)
ocrFullPage(acc, pageIndex, outcome) ==
  IF outcome = "renderfail"
    THEN [acc EXCEPT !.failed = TRUE, !.held = @ + 1]
  ELSE IF outcome = "throw"
    THEN [acc EXCEPT !.texts = Append(@, <<>>),
                     !.trace = pushTrace(@, "ocr", "page failed", "warn")]
  ELSE [acc EXCEPT !.texts = Append(@, Normalize(OcrText(outcome, pageIndex)))]

RECURSIVE ocrFullLoop(_, _, _, _)
ocrFullLoop(acc, pageIndex, last, out) ==
  IF pageIndex > last \/ acc.failed THEN acc
  ELSE ocrFullLoop(ocrFullPage(acc, pageIndex, out[pageIndex]), pageIndex + 1, last, out)

\* ocrPdf (lines 1003-1049): [text, pages, trace]
ocrPdf(tr, out, d, e, pageLimit) ==
  IF ~(e.canvas /\ e.tesseract)
    THEN [text |-> <<>>, pages |-> <<>>, held |-> 0,
          trace |-> pushTrace(tr, "ocr", "tesseract unavailable", "warn")]
  ELSE IF ~d.ok
    THEN [text |-> <<>>, pages |-> <<>>, held |-> 0,
          trace |-> pushTrace(tr, "ocr", "OCR error", "error")]
  ELSE LET r == ocrFullLoop([texts |-> <<>>, trace |-> tr, failed |-> FALSE, held |-> 0], 1,
                            Min(pageLimit, Len(d.layer)), out)
           combined == Trim(Join(r.texts, <<NL>>))
       IN  IF r.failed
             THEN [text |-> <<>>, pages |-> <<>>, held |-> r.held,
                   trace |-> pushTrace(r.trace, "ocr", "OCR error", "error")]
           ELSE
           [text |-> combined, held |-> r.held,
            pages |-> normalizePageSegments(r.texts, combined),
            trace |-> pushTrace(r.trace, "ocr",
                                IF combined # <<>> THEN "OCR characters" ELSE "OCR gave nothing",
                                "info")]

\* OcrTextUsable comparing against MIN_USEFUL_TEXT_LENGTH
OcrTextUsable_WrongMinimum(ocrText) ==
  ocrText # <<>> /\ StrLen(Trim(ocrText)) >= MIN_USEFUL_TEXT_LENGTH

\* line 1564: ocrText && ocrText.trim().length >= 40
OcrTextUsable(ocrText) ==
  ocrText # <<>> /\ StrLen(Trim(ocrText)) >= MIN_FALLBACK_TEXT_LENGTH

\* lines 1565-1582
ocrResponse(tr, kind, ocr) ==
  LET ocrPages == IF ocr.pages # <<>> THEN ocr.pages ELSE <<ocr.text>>
      ocrLayout == buildPlainLayout(ocrPages)
  IN  buildResponse(tr, kind, "pdf-ocr", ocr.text, TRUE, TRUE,
                    buildPageMeta(ocr.text, ocrPages, ocrLayout))

\* unreadableResponse whose trace entry takes the default status of pushTrace
unreadableResponse_InfoStatus(tr, kind) ==
  chooseText(pushTrace(tr, "pdf", "no text extracted", "info"), kind, <<>>,
             "pdf-unreadable", FALSE, NoMeta)

\* lines 1585-1586
unreadableResponse(tr, kind) ==
  chooseText(pushTrace(tr, "pdf", "no text extracted", "warn"), kind, <<>>,
             "pdf-unreadable", FALSE, NoMeta)

\* lines 1563-1587 with ocrPdf
OcrPdf ==
  \/ /\ pc = "ocr"
     /\ \E out \in [1..Len(doc.layer) -> OcrOutcomes] :
          LET ocr == ocrPdf(trace, out, doc, env, OCR_PAGE_LIMIT) IN
          /\ result' = IF OcrTextUsable(ocr.text) THEN ocrResponse(ocr.trace, detectedKind, ocr)
                       ELSE unreadableResponse(ocr.trace, detectedKind)
          /\ trace' = result'.trace
          /\ hist' = [Stage("ocr") EXCEPT !.ocrText = ocr.text, !.held = @ + ocr.held]
     /\ pc' = "done"
     /\ UNCHANGED <<fn, file, buffer, doc, env, detectedKind, pdfResult, pdfMeta>>
  \/ \* tesseract.recognize of line 1025 never settles
     /\ pc = "ocr"
     /\ env.canvas /\ env.tesseract /\ doc.ok
     /\ neverSettles(trace)

\* ------------------------------------------------------------------------
\* Image and binary
\* ------------------------------------------------------------------------
\* lines 1594-1602 and 1624-1632: the response without recognised text
imagePreviewResponse(tr) ==
  buildResponse(tr, "image", "image-preview", <<>>, FALSE, TRUE,
                buildPageMeta(<<>>, <<>>, NoLayout))

\* lines 1606-1621
imageOcrResponse(tr, recognizedText) ==
  LET pages == <<recognizedText>>
      layout == buildPlainLayout(pages)
  IN  buildResponse(tr, "image", "image-ocr", recognizedText, TRUE, TRUE,
                    buildPageMeta(recognizedText, pages, layout))

\* lines 1589-1634
ImageOcr ==
  \/ /\ pc = "image"
     /\ LET tr == pushTrace(trace, "image", "starting image OCR", "info") IN
        \/ \* readAsDataURL rejects
           /\ trace' = tr
           /\ pc' = "thrown"
           /\ UNCHANGED result
        \/ /\ ~(env.canvas /\ env.tesseract)
           /\ trace' = tr
           /\ result' = imagePreviewResponse(tr)
           /\ pc' = "done"
        \/ /\ env.canvas /\ env.tesseract
           /\ \E outcome \in RecognizeOutcomes :
                /\ trace' = IF outcome = "throw"
                              THEN pushTrace(tr, "image", "OCR error", "error")
                              ELSE tr
                /\ result' = IF outcome = "throw" THEN imagePreviewResponse(trace')
                             ELSE imageOcrResponse(tr, OcrText(outcome, 1))
           /\ pc' = "done"
     /\ hist' = Stage("image")
     /\ UNCHANGED <<fn, file, buffer, doc, env, detectedKind, pdfResult, pdfMeta>>
  \/ \* tesseract.recognize of line 1605 never settles
     /\ pc = "image"
     /\ env.canvas /\ env.tesseract
     /\ neverSettles(pushTrace(trace, "image", "starting image OCR", "info"))

\* lines 1636-1646
BinaryPreview ==
  /\ pc = "binary"
  /\ trace' = pushTrace(trace, "binary", "unknown file type", "info")
  /\ result' = buildResponse(trace', "binary", "binary", <<>>, FALSE, FALSE, NoMeta)
  /\ pc' = "done"
  /\ hist' = Stage("binary")
  /\ UNCHANGED <<fn, file, buffer, doc, env, detectedKind, pdfResult, pdfMeta>>

\* ------------------------------------------------------------------------
\* Specification
\* ------------------------------------------------------------------------
Next ==
  \/ ReadBuffer
  \/ DetectKind
  \/ ExtractDocx
  \/ DecodeText
  \/ RenderPdf
  \/ AdaptivePatch
  \/ AcceptPdf
  \/ ServerExtract
  \/ OcrPdf
  \/ ImageOcr
  \/ BinaryPreview

Spec == Init /\ [][Next]_vars

\* ------------------------------------------------------------------------
\* Library functions called on their own: no run of readFileContent is in
\* progress, fn holds the argument and, once the call returned, its value
\* ------------------------------------------------------------------------
NoRun ==
  /\ pc = "idle"
  /\ file = NoFile
  /\ buffer = <<>>
  /\ doc = BrokenDoc
  /\ env = [canvas |-> FALSE, tesseract |-> FALSE]
  /\ trace = <<>>
  /\ detectedKind = "unknown"
  /\ pdfResult = NoPdfResult
  /\ pdfMeta = NoMeta
  /\ result = NoResult
  /\ hist = NoHist

\* a text of c Cyrillic letters, d digits and l Latin letters
Letters(c, d, l) ==
  (IF c = 0 THEN <<>> ELSE <<Run("cyr", c)>>)
  \o (IF d = 0 THEN <<>> ELSE <<Run("digit", d)>>)
  \o (IF l = 0 THEN <<>> ELSE <<Run("xy", l)>>)

\* the candidate texts: the counts around every threshold of lines 1159-1164,
\* bare and wrapped in whitespace, the empty text and whitespace alone
AcceptTexts ==
  LET CyrCounts == {0, 19, 20, 40, 41}
      DigitCounts == {0, 1, 2, 9, 30, 31}
      LatinCounts == {0, 7, 8, 48, 49, 50, 78, 79, 88, 89, 90, 199, 200}
  IN  { Letters(c, d, l) : c \in CyrCounts, d \in DigitCounts, l \in LatinCounts }
      \cup { <<SP, NL>> \o Letters(c, d, 7) \o <<SP>> : c \in CyrCounts, d \in DigitCounts }
      \cup { <<>>, <<SP>>, <<NL, SP>> }

InitAccept ==
  /\ NoRun
  /\ fn \in { [op |-> "accept", text |-> t, returned |-> FALSE, readable |-> FALSE] :
                t \in AcceptTexts }

\* one call of evaluateSoftPdfAcceptance(assessment, text)
EvaluateAcceptance ==
  /\ fn.op = "accept"
  /\ ~fn.returned
  /\ fn' = [fn EXCEPT !.returned = TRUE, !.readable = evaluateSoftPdfAcceptance(fn.text)]
  /\ UNCHANGED runVars

SpecAccept == InitAccept /\ [][EvaluateAcceptance]_vars

\* ------------------------------------------------------------------------
\* detectColumns.  A block is [x0, x2], the left and right edge of its bbox in
\* whole points; a center is kept doubled (x0 + x2) and a rounded coordinate
\* in hundredths of a point.
\* ------------------------------------------------------------------------
\* the largest number of blocks of one page
MaxBlocks == 3

\* lines 743-748: Array.prototype.sort by center, equal centers stay in the
\* order of the input
RECURSIVE sortByCenter(_)
sortByCenter(blocks) ==
  IF blocks = <<>> THEN <<>>
  ELSE LET rest == sortByCenter(SubSeq(blocks, 1, Len(blocks) - 1))
           last == blocks[Len(blocks)]
           before == SelectSeq(rest, LAMBDA b : b.x0 + b.x2 <= last.x0 + last.x2)
           after == SelectSeq(rest, LAMBDA b : b.x0 + b.x2 > last.x0 + last.x2)
       IN  before \o <<last>> \o after

\* line 750 and line 760: entry.center - prev.center > Math.max(pageWidth * 0.08, 42)
gapExceeds(prev, entry, pageWidth) ==
  LET scaled == Times(Divide(8, 100), pageWidth)
      gapThreshold == IF Less(scaled, Divide(42, 1)) THEN Divide(42, 1) ELSE scaled
  IN  Less(gapThreshold, Divide((entry.x0 + entry.x2) - (prev.x0 + prev.x2), 2))

\* lines 751-770: the sorted entries cut where the gap exceeds the threshold
RECURSIVE clusterEntries(_, _, _)
clusterEntries(centers, current, pageWidth) ==
  IF centers = <<>> THEN (IF current = <<>> THEN <<>> ELSE <<current>>)
  ELSE IF current # <<>> /\ gapExceeds(current[Len(current)], Head(centers), pageWidth)
    THEN <<current>> \o clusterEntries(Tail(centers), <<Head(centers)>>, pageWidth)
  ELSE clusterEntries(Tail(centers), Append(current, Head(centers)), pageWidth)

RECURSIVE sumCenters(_)
sumCenters(cluster) ==
  IF cluster = <<>> THEN 0 ELSE Head(cluster).x0 + Head(cluster).x2 + sumCenters(Tail(cluster))

\* a column that starts at the edge of its first block
columnOf_FirstEdge(cluster, index, pageWidth) ==
  [ id |-> index - 1,
    start |-> 100 * (IF cluster[1].x0 - 12 < 0 THEN 0 ELSE cluster[1].x0 - 12),
    end |-> 100 * Min(pageWidth, cluster[1].x2 + 12),
    center |-> (100 * sumCenters(cluster) + Len(cluster)) \div (2 * Len(cluster)),
    blockCount |-> Len(cluster) ]

\* lines 772-781.  roundCoord (line 692) of a whole number is that number;
\* the center is sum / (2 length) of whole numbers, and Math.round(100 center)
\* is its nearest integer, the larger of two (for fewer than 100 blocks a tie
\* is a multiple of 1/8, which the division and the product keep exact).
columnOf(cluster, index, pageWidth) ==
  LET minX == CHOOSE x \in {cluster[i].x0 : i \in 1..Len(cluster)} :
                \A i \in 1..Len(cluster) : x <= cluster[i].x0
      maxX == CHOOSE x \in {cluster[i].x2 : i \in 1..Len(cluster)} :
                \A i \in 1..Len(cluster) : x >= cluster[i].x2
  IN  [ id |-> index - 1,
        start |-> 100 * (IF minX - 12 < 0 THEN 0 ELSE minX - 12),
        end |-> 100 * Min(pageWidth, maxX + 12),
        center |-> (100 * sumCenters(cluster) + Len(cluster)) \div (2 * Len(cluster)),
        blockCount |-> Len(cluster) ]

\* detectColumns(blocks, pageWidth); the single column of a page without
\* blocks has no blockCount (0 here)
detectColumns(blocks, pageWidth) ==
  IF blocks = <<>>
    THEN << [id |-> 0, start |-> 0, end |-> 100 * pageWidth, center |-> 50 * pageWidth,
             blockCount |-> 0] >>
  ELSE LET clusters == clusterEntries(sortByCenter(blocks), <<>>, pageWidth)
       IN  [i \in 1..Len(clusters) |-> columnOf(clusters[i], i, pageWidth)]

\* blocks with equal centers and different edges, and with gaps of 50, 43 and
\* 147 points between centers; page widths whose threshold is 42 and 48
Blocks == { [x0 |-> 10, x2 |-> 110], [x0 |-> 30, x2 |-> 90], [x0 |-> 100, x2 |-> 120],
            [x0 |-> 105, x2 |-> 201], [x0 |-> 250, x2 |-> 350] }
PageWidths == {500, 600}

\* every list of blocks with every reordering of it
InitColumns ==
  /\ NoRun
  /\ \E b \in UNION { [1..n -> Blocks] : n \in 0..MaxBlocks } :
       \E q \in Permutations(1..Len(b)) : \E w \in PageWidths :
         fn = [op |-> "columns", inputs |-> <<b, [i \in 1..Len(b) |-> b[q[i]]]>>,
               pageWidth |-> w, outputs |-> <<>>, annotated |-> <<>>]

\* lines 915-916: the column written to block.column, the first column whose
\* bounds widened by 2 points hold the block, else the first column
blockColumn(block, columns) ==
  LET holds == { k \in 1..Len(columns) :
                   /\ 100 * block.x0 >= columns[k].start - 200
                   /\ 100 * block.x2 <= columns[k].end + 200 }
  IN  IF holds = {} THEN columns[1].id
      ELSE columns[CHOOSE k \in holds : \A j \in holds : k <= j].id

\* one call of detectColumns(blocks, pageWidth), on the next of the inputs,
\* and the annotation of its blocks as renderPdfWithPdfjs does it for the
\* blocks of a page (lines 911 and 914-916)
DetectColumns ==
  /\ fn.op = "columns"
  /\ Len(fn.outputs) < Len(fn.inputs)
  /\ LET blocks == fn.inputs[Len(fn.outputs) + 1]
         columns == detectColumns(blocks, fn.pageWidth)
     IN  fn' = [fn EXCEPT !.outputs = Append(@, columns),
                          !.annotated = Append(@, [i \in 1..Len(blocks) |->
                                                    blockColumn(blocks[i], columns)])]
  /\ UNCHANGED runVars

SpecColumns == InitColumns /\ [][DetectColumns]_vars

\* ------------------------------------------------------------------------
\* decodeTextBuffer.  A buffer is a sequence of bytes, a decoded text the
\* sequence of its UTF-16 code units.
\* ------------------------------------------------------------------------
\* the largest number of bytes of a text buffer
MaxBytes == 3

\* U+FFFD, which a decoder writes for bytes it cannot decode; Malformed stands
\* for it until the decoder knows whether it is fatal
ReplacementChar == 65533
Malformed == 0 - 1
ByteOrderMark == 65279

\* TextDecoder('utf-8'): one code unit per well-formed sequence of one, two
\* or three bytes, Malformed per ill-formed subsequence (no byte of the model
\* starts a sequence of four)
RECURSIVE decodeUtf8(_)
decodeUtf8(bytes) ==
  IF bytes = <<>> THEN <<>>
  ELSE LET b == Head(bytes)
           continues(i) == Len(bytes) >= i /\ bytes[i] >= 128 /\ bytes[i] <= 191
           second == /\ continues(2)
                     /\ (b = 224 => bytes[2] >= 160)
                     /\ (b = 237 => bytes[2] <= 159)
       IN  IF b < 128 THEN <<b>> \o decodeUtf8(Tail(bytes))
           ELSE IF b >= 194 /\ b <= 223 /\ continues(2)
             THEN <<(b - 192) * 64 + (bytes[2] - 128)>> \o decodeUtf8(SubSeq(bytes, 3, Len(bytes)))
           ELSE IF b >= 224 /\ b <= 239 /\ second /\ continues(3)
             THEN <<(b - 224) * 4096 + (bytes[2] - 128) * 64 + (bytes[3] - 128)>>
                  \o decodeUtf8(SubSeq(bytes, 4, Len(bytes)))
           ELSE IF b >= 224 /\ b <= 239 /\ second
             THEN <<Malformed>> \o decodeUtf8(SubSeq(bytes, 3, Len(bytes)))
           ELSE <<Malformed>> \o decodeUtf8(Tail(bytes))

\* TextDecoder('utf-16le') and ('utf-16be'): one code unit per two bytes, a
\* surrogate without its partner and a last single byte are Malformed
RECURSIVE decodeUtf16(_, _)
decodeUtf16(bytes, bigEndian) ==
  LET unit(i) == IF bigEndian THEN 256 * bytes[i] + bytes[i + 1]
                 ELSE bytes[i] + 256 * bytes[i + 1]
  IN  IF bytes = <<>> THEN <<>>
      ELSE IF Len(bytes) = 1 THEN <<Malformed>>
      ELSE IF unit(1) >= 55296 /\ unit(1) <= 56319 /\ Len(bytes) >= 4
              /\ unit(3) >= 56320 /\ unit(3) <= 57343
        THEN <<unit(1), unit(3)>> \o decodeUtf16(SubSeq(bytes, 5, Len(bytes)), bigEndian)
      ELSE IF unit(1) >= 55296 /\ unit(1) <= 57343
        THEN <<Malformed>> \o decodeUtf16(SubSeq(bytes, 3, Len(bytes)), bigEndian)
      ELSE <<unit(1)>> \o decodeUtf16(SubSeq(bytes, 3, Len(bytes)), bigEndian)

\* the rows of the three single-byte code pages for the bytes of the model
\* from 0x80 on: 0xB0, 0xBB, 0xBF, 0xC3, 0xD0, 0xEF
CodePage(encoding, b) ==
  IF b < 128 THEN b
  ELSE IF encoding = "windows-1251"
    THEN (IF b >= 192 THEN 1040 + (b - 192)
          ELSE CASE b = 176 -> 176 [] b = 187 -> 187 [] b = 191 -> 1111)
  ELSE IF encoding = "koi8-r"
    THEN (CASE b = 176 -> 9567 [] b = 187 -> 9577 [] b = 191 -> 169
            [] b = 195 -> 1094 [] b = 208 -> 1087 [] b = 239 -> 1054)
  ELSE (IF b >= 224 /\ b <= 239 THEN 1088 + (b - 224)
        ELSE CASE b = 176 -> 9617 [] b = 187 -> 9559 [] b = 191 -> 9488
               [] b = 195 -> 9500 [] b = 208 -> 9576)

\* decodeUsing(buffer, encoding, { fatal }): the decoded text without a
\* leading byte order mark; '' when a fatal decoder throws
decodeUsing(bytes, encoding, fatal) ==
  LET raw == CASE encoding = "utf-8" -> decodeUtf8(bytes)
               [] encoding = "utf-16le" -> decodeUtf16(bytes, FALSE)
               [] encoding = "utf-16be" -> decodeUtf16(bytes, TRUE)
               [] OTHER -> [i \in 1..Len(bytes) |-> CodePage(encoding, bytes[i])]
      marked == encoding \in {"utf-8", "utf-16le", "utf-16be"}
                  /\ raw # <<>> /\ raw[1] = ByteOrderMark
      text == IF marked THEN Tail(raw) ELSE raw
  IN  IF fatal /\ \E i \in 1..Len(raw) : raw[i] = Malformed THEN <<>>
      ELSE [i \in 1..Len(text) |-> IF text[i] = Malformed THEN ReplacementChar ELSE text[i]]

\* the code units that the regular expression class \s matches
IsSpaceUnit(c) ==
  c \in {9, 10, 11, 12, 13, 32, 160, 5760, 8232, 8233, 8239, 8287, 12288, ByteOrderMark}
    \cup 8192..8202

\* scoreTextCandidate times 50: length + 30 cyrillic - 200 mojibake - 300
\* controls over text.replace(/\s+/g, ' '); NoScore is -Infinity.  For texts
\* shorter than 30 two different values differ by at least 1/50 and equal
\* values come from the same sum, so the order of the products is the order of
\* the scores.
NoScore == 0 - 1000000

scoreTextCandidate(text) ==
  LET kept == { i \in 1..Len(text) : ~(IsSpaceUnit(text[i]) /\ i > 1 /\ IsSpaceUnit(text[i - 1])) }
      plain == { i \in kept : ~IsSpaceUnit(text[i]) }
      cyrillic == { i \in plain : text[i] \in (1040..1103) \cup {1025, 1105} }
      mojibake == { i \in plain : text[i] \in {195, 194, 208, 209, 210, 211, 221, 230} }
      controls == { i \in plain : text[i] \in (0..8) \cup {11, 12} \cup (14..31) }
  IN  IF text = <<>> THEN NoScore
      ELSE Cardinality(kept) + 30 * Cardinality(cyrillic)
           - 200 * Cardinality(mojibake) - 300 * Cardinality(controls)

\* lines 584-591
Candidates == <<"utf-8", "utf-16le", "utf-16be", "windows-1251", "koi8-r", "ibm866">>

\* lines 592-601: the loop over the candidates from candidate i on
RECURSIVE bestCandidate(_, _, _)
bestCandidate(bytes, i, best) ==
  IF i > Len(Candidates) THEN best.text
  ELSE LET text == decodeUsing(bytes, Candidates[i], FALSE)
           score == scoreTextCandidate(text)
       IN  IF text # <<>> /\ score > best.score
             THEN bestCandidate(bytes, i + 1, [score |-> score, text |-> text])
             ELSE bestCandidate(bytes, i + 1, best)

\* decodeTextBuffer(buffer) for a buffer that is given
decodeTextBuffer(bytes) ==
  LET strictUtf8 == decodeUsing(bytes, "utf-8", TRUE)
  IN  IF strictUtf8 # <<>> THEN strictUtf8
      ELSE bestCandidate(bytes, 1, [score |-> NoScore - 1, text |-> <<>>])

\* NUL, space, A, and bytes that are a UTF-8 continuation (B0, BB, BF), a
\* UTF-8 lead of two (C3, D0) and of three bytes (EF), and letters or signs
\* in the code pages
TextBytes == {0, 32, 65, 176, 187, 191, 195, 208, 239}

InitDecode ==
  /\ NoRun
  /\ fn \in { [op |-> "decode", bytes |-> b, returned |-> FALSE, text |-> <<>>] :
                b \in UNION { [1..n -> TextBytes] : n \in 0..MaxBytes } }

\* one call of decodeTextBuffer(buffer)
DecodeTextBuffer ==
  /\ fn.op = "decode"
  /\ ~fn.returned
  /\ fn' = [fn EXCEPT !.returned = TRUE, !.text = decodeTextBuffer(fn.bytes)]
  /\ UNCHANGED runVars

SpecDecode == InitDecode /\ [][DecodeTextBuffer]_vars

\* the largest number of calls of the quality functions during one run
MaxCalls == 2

\* the texts that are scored: a short line with Cyrillic, a text on the score
\* boundary
QualityTexts == { <<Run("mixed", 1)>>, Letters(20, 9, 7) }

\* runs of readFileContent on every kind of file, the PDF one page that is a
\* scan or carries a short text layer, on a host that can run OCR
InitQuality ==
  /\ Init
  /\ file.given
  /\ file.name = <<>>
  /\ buffer \in {PdfMagic \o <<45>>, <<104, 105>>}
  /\ doc.ok = StartsWith(buffer, PdfMagic)
  /\ doc.ok => doc.layer \in {<<"short">>, <<"none">>}
  /\ env = [canvas |-> TRUE, tesseract |-> TRUE]

\* a scoring that leaves a mark in the trace of the run
EvaluateQuality_Traced ==
  /\ Len(IF fn = NoFn THEN <<>> ELSE fn.calls) < MaxCalls
  /\ \E t \in QualityTexts :
       fn' = [op |-> "quality",
              calls |-> Append(IF fn = NoFn THEN <<>> ELSE fn.calls,
                               [text |-> t, at |-> pc, score |-> computeQuality(t),
                                readable |-> evaluateSoftPdfAcceptance(t)])]
  /\ trace' = pushTrace(trace, "quality", "scored", "info")
  /\ UNCHANGED <<pc, file, buffer, doc, env, detectedKind, pdfResult, pdfMeta, result, hist>>

\* one call of computeQuality(text) and evaluateSoftPdfAcceptance(null, text)
\* made while the run is at pc
EvaluateQuality ==
  /\ Len(IF fn = NoFn THEN <<>> ELSE fn.calls) < MaxCalls
  /\ \E t \in QualityTexts :
       fn' = [op |-> "quality",
              calls |-> Append(IF fn = NoFn THEN <<>> ELSE fn.calls,
                               [text |-> t, at |-> pc, score |-> computeQuality(t),
                                readable |-> evaluateSoftPdfAcceptance(t)])]
  /\ UNCHANGED runVars

SpecQuality == InitQuality /\ [][Next \/ EvaluateQuality]_vars

\* ------------------------------------------------------------------------
\* detectTableRows called on its own
\* ------------------------------------------------------------------------
MaxLines == 3

\* default of the parameter minColumns
minColumns == 3

\* detectTableRows (lines 784-811) on lines [y, blocks], a block [x, text] with
\* x = bbox[0]; y is a whole number, which roundCoord leaves as it is.
\* Array.prototype.sort is stable: blocks of equal x keep their order
detectTableRows(lines) ==
  LET meaningful(line) ==
        Cardinality({k \in 1..Len(line.blocks) : line.blocks[k].text \notin {"", " "}})
      insert(b, sorted) ==
        LET k == Cardinality({j \in 1..Len(sorted) : sorted[j].x <= b.x})
        IN  SubSeq(sorted, 1, k) \o <<b>> \o SubSeq(sorted, k + 1, Len(sorted))
      RECURSIVE sortByX(_)
      sortByX(blocks) ==
        IF blocks = <<>> THEN <<>>
        ELSE insert(blocks[Len(blocks)], sortByX(SubSeq(blocks, 1, Len(blocks) - 1)))
      RECURSIVE scan(_, _, _)
      scan(i, current, tables) ==
        IF i > Len(lines)
          THEN IF current # <<>> THEN Append(tables, current) ELSE tables
        ELSE IF meaningful(lines[i]) >= minColumns
          THEN scan(i + 1, Append(current, lines[i]), tables)
        ELSE IF current # <<>>
          THEN scan(i + 1, <<>>, Append(tables, current))
        ELSE scan(i + 1, current, tables)
      found == scan(1, <<>>, <<>>)
  IN  [t \in 1..Len(found) |->
        [id |-> t,
         rows |-> [j \in 1..Len(found[t]) |->
                    [y |-> found[t][j].y, cells |-> sortByX(found[t][j].blocks)]]]]

\* the lines handed in: up to MaxLines lines, each three blocks out of X order,
\* three blocks in order, two blocks, three blocks one of them blank, or four
\* blocks one of them empty
InitTables ==
  /\ NoRun
  /\ LET B(x, text) == [x |-> x, text |-> text]
         LineBlocks == { <<B(30, "c"), B(10, "a"), B(20, "b")>>,
                         <<B(10, "a"), B(20, "b"), B(30, "c")>>,
                         <<B(10, "a"), B(20, "b")>>,
                         <<B(10, "a"), B(20, " "), B(30, "c")>>,
                         <<B(20, "b"), B(10, ""), B(30, "c"), B(40, "d")>> }
     IN  \E n \in 1..MaxLines : \E blocks \in [1..n -> LineBlocks] :
           fn = [op |-> "tables", done |-> FALSE,
                 lines |-> [i \in 1..n |-> [y |-> 12 * i, blocks |-> blocks[i]]]]

DetectTableRows ==
  /\ fn.op = "tables" /\ ~fn.done
  /\ fn' = [op |-> "tables", done |-> TRUE, lines |-> fn.lines,
            tables |-> detectTableRows(fn.lines)]
  /\ UNCHANGED runVars

SpecTables == InitTables /\ [][DetectTableRows]_vars

\* ------------------------------------------------------------------------
\* markHeadings called on its own
\* ------------------------------------------------------------------------
MaxChars == 3

\* markHeadings (lines 813-830) on lines given by their text, a sequence of
\* characters out of "1" (a digit), ".", " ", "A" and "a" (Latin), "YA" and "ya"
\* (Cyrillic U+042F and U+044F), "%" (any other sign): the texts of the lines kept by the filter.
\* uppercase / letters > 0.65 is decided on whole numbers: the quotient of two
\* counts below 2^53 is the double nearest to the exact ratio and 0.65 the
\* double nearest to 13/20, so the comparison is that of 20 * uppercase with
\* 13 * letters. \w without the u flag is [A-Za-z0-9_]
markHeadings(lines) ==
  LET Strip(text) ==
        LET Kept(c) == c \notin {"1", " ", "."} IN SelectSeq(text, Kept)
      Count(text, set) == Cardinality({i \in 1..Len(text) : text[i] \in set})
      TrimText(text) ==
        LET inked == {i \in 1..Len(text) : text[i] # " "}
        IN  IF inked = {} THEN <<>>
            ELSE SubSeq(text, CHOOSE i \in inked : \A j \in inked : i <= j,
                              CHOOSE i \in inked : \A j \in inked : i >= j)
      \* /^\d+(\.\d+)*\s/ from position i on, one digit of a group consumed
      RECURSIVE prefixFrom(_, _)
      prefixFrom(text, i) ==
        IF i > Len(text) THEN FALSE
        ELSE IF text[i] = "1" THEN prefixFrom(text, i + 1)
        ELSE IF text[i] = " " THEN TRUE
        ELSE IF text[i] = "."
          THEN i + 1 <= Len(text) /\ text[i + 1] = "1" /\ prefixFrom(text, i + 2)
        ELSE FALSE
      numbered(text) == text # <<>> /\ text[1] = "1" /\ prefixFrom(text, 2)
      \* /^[A-Z<Cyrillic capitals>0-9][\w\s<quotes>()-]+$/ on cleaned
      capitalized(cleaned) ==
        /\ Len(cleaned) >= 2
        /\ cleaned[1] \in {"A", "YA"}
        /\ \A i \in 2..Len(cleaned) : cleaned[i] \in {"A", "a"}
      kept(text) ==
        LET cleaned == Strip(text)
            uppercase == Count(cleaned, {"A", "YA"})
            counted == Count(cleaned, {"A", "a", "YA", "ya"})
            letters == IF counted = 0 THEN 1 ELSE counted
        IN  IF cleaned = <<>> THEN FALSE
            ELSE IF 20 * uppercase > 13 * letters THEN TRUE
            ELSE IF numbered(TrimText(text)) THEN TRUE
            ELSE Len(cleaned) <= 32 /\ capitalized(cleaned)
  IN  SelectSeq(lines, kept)

\* one line of up to MaxChars characters
InitHeadings ==
  /\ NoRun
  /\ \E n \in 1..MaxChars :
       \E text \in [1..n -> {"1", ".", " ", "A", "a", "YA", "ya", "%"}] :
         fn = [op |-> "headings", done |-> FALSE, lines |-> <<text>>]

MarkHeadings ==
  /\ fn.op = "headings" /\ ~fn.done
  /\ fn' = [op |-> "headings", done |-> TRUE, lines |-> fn.lines,
            headings |-> markHeadings(fn.lines)]
  /\ UNCHANGED runVars

SpecHeadings == InitHeadings /\ [][MarkHeadings]_vars

\* ------------------------------------------------------------------------
\* The lazy loaders loadPdfjs, loadJSZip and loadTesseract, called by the
\* runs of one session in any interleaving.  The module keeps one promise per
\* loader (lines 12-14): "unset", "pending", "fulfilled" or "failed" (the
\* import rejected; the script did not load and the promise resolved to null)
\* ------------------------------------------------------------------------
\* the largest number of loader calls of a session
MaxLoadCalls == 3

\* a loader that starts its load again after a failure
startsLoad_Retry(promise) == promise \in {"unset", "failed"}

\* lines 149, 159 and 180: if (!pdfjsPromise), if (!jszipPromise),
\* if (!ocrScriptPromise)
startsLoad(promise) == promise = "unset"

\* no loader was called yet; canvas is what canUseCanvas() answers on this
\* host, tesseract whether window.Tesseract is set
InitLoaders ==
  /\ NoRun
  /\ \E canvas \in BOOLEAN :
       fn = [op |-> "loaders", canvas |-> canvas, tesseract |-> FALSE,
             promise |-> [l \in {"pdfjs", "jszip", "ocr"} |-> "unset"],
             started |-> [l \in {"pdfjs", "jszip", "ocr"} |-> 0],
             calls |-> <<>>]

\* one call of loadPdfjs or loadJSZip (lines 148-163) or of loadTesseract
\* (lines 176-202) up to its return; the body runs without an await, so no
\* other call interleaves with it.  The call is recorded with the state of
\* the promise it found and with what it returned
LoadCall ==
  /\ fn.op = "loaders"
  /\ Len(fn.calls) < MaxLoadCalls
  /\ \E l \in {"pdfjs", "jszip", "ocr"} :
       IF l = "ocr" /\ ~fn.canvas
         THEN fn' = [fn EXCEPT !.calls = Append(@, [loader |-> l, found |-> fn.promise[l],
                                                   returned |-> "null"])]
       ELSE IF l = "ocr" /\ fn.tesseract
         THEN fn' = [fn EXCEPT !.calls = Append(@, [loader |-> l, found |-> fn.promise[l],
                                                   returned |-> "library"])]
       ELSE IF startsLoad(fn.promise[l])
         THEN fn' = [fn EXCEPT !.promise[l] = "pending",
                               !.started[l] = @ + 1,
                               !.calls = Append(@, [loader |-> l, found |-> fn.promise[l],
                                                    returned |-> "promise"])]
       ELSE fn' = [fn EXCEPT !.calls = Append(@, [loader |-> l, found |-> fn.promise[l],
                                                  returned |-> "promise"])]
  /\ UNCHANGED runVars

\* the import of lines 150 and 160 or the script of lines 190-196 finishes:
\* the promise fulfils with the library (the script has set
\* window.Tesseract), or the import rejects, or script.onerror resolves null
LoadSettles ==
  /\ fn.op = "loaders"
  /\ \E l \in {"pdfjs", "jszip", "ocr"} :
       /\ fn.promise[l] = "pending"
       /\ \/ fn' = [fn EXCEPT !.promise[l] = "fulfilled",
                               !.tesseract = IF l = "ocr" THEN TRUE ELSE @]
          \/ fn' = [fn EXCEPT !.promise[l] = "failed"]
  /\ UNCHANGED runVars

SpecLoaders == InitLoaders /\ [][LoadCall \/ LoadSettles]_vars

\* ------------------------------------------------------------------------
\* Properties
\* ------------------------------------------------------------------------
Ran(stage) == \E i \in 1..Len(hist.stages) : hist.stages[i] = stage
StageIndex(stage) == CHOOSE i \in 1..Len(hist.stages) : hist.stages[i] = stage
Returned == result.returned
PdfRun == detectedKind = "pdf"
StructuralExtractors == {"pdfjs", "pdfjs-soft"}

\* C1: a buffer that starts with %PDF is classified pdf, whatever the declared
\* MIME type and the file name are.
C1_PdfMagicWins ==
  (Ran("detect") /\ StartsWith(buffer, PdfMagic)) => detectedKind = "pdf"

C1_Witness ==
  /\ Ran("detect")
  /\ StartsWith(buffer, PdfMagic)
  /\ EndsWith(file.name, ExtDocx)
  /\ StartsWith(file.type, StrTextSlash)
  /\ detectedKind = "pdf"

\* the kind each signal alone asks for, "" when the signal matches no rule
MagicKind(buf) ==
  IF StartsWith(buf, PdfMagic) THEN "pdf" ELSE IF StartsWith(buf, ZipMagic) THEN "docx" ELSE ""
MimeKind(type) ==
  IF Includes(ToLowerCase(type), StrPdf) THEN "pdf"
  ELSE IF Includes(ToLowerCase(type), StrWordprocessingml) THEN "docx" ELSE ""
ExtensionKind(name) ==
  IF EndsWith(ToLowerCase(name), ExtPdf) THEN "pdf"
  ELSE IF EndsWith(ToLowerCase(name), ExtDocx) THEN "docx" ELSE ""

\* C2: kind detection applies magic bytes, then the declared MIME type, then the
\* file name extension, and the first signal that matches a rule decides: a ZIP
\* header gives docx even under a pdf MIME type or a .pdf name, and a MIME match
\* overrides a conflicting extension.
C2_MagicThenMimeThenExtension ==
  Ran("detect") =>
    IF MagicKind(buffer) # "" THEN detectedKind = MagicKind(buffer)
    ELSE IF MimeKind(file.type) # "" THEN detectedKind = MimeKind(file.type)
    ELSE IF ExtensionKind(file.name) # "" THEN detectedKind = ExtensionKind(file.name)
    ELSE TRUE

\* C3: the adaptive OCR patch changes only page entries that scored below the
\* threshold before the patch, and never shortens the page array.
PatchFrame(before, after) ==
  /\ Len(after) >= Len(before)
  /\ \A i \in 1..Len(before) :
       computeQuality(before[i]) >= OCR_QUALITY_THRESHOLD => after[i] = before[i]

C3_PatchTouchesOnlyLowPages ==
  /\ Ran("patch") => PatchFrame(hist.prePatchPages, pdfMeta.pages)
  /\ (Returned /\ PdfRun /\ result.extractor \in StructuralExtractors)
       => PatchFrame(hist.prePatchPages, result.meta.pages)

C3_Witness ==
  /\ Returned /\ PdfRun
  /\ result.meta.ocrPatchedPages # <<>>
  /\ \E i \in 1..Len(hist.prePatchPages) :
       /\ computeQuality(hist.prePatchPages[i]) >= OCR_QUALITY_THRESHOLD
       /\ result.meta.pages[i] = hist.prePatchPages[i]
  /\ \E j \in 1..Len(hist.prePatchPages) : result.meta.pages[j] # hist.prePatchPages[j]

\* the only physical page without a text layer, all other pages being clean
OnlyScannedPage(k) ==
  /\ doc.ok /\ Len(doc.layer) >= 2 /\ k \in 1..Len(doc.layer)
  /\ \A p \in 1..Len(doc.layer) : doc.layer[p] = (IF p = k THEN "none" ELSE "clean")

\* C4: in a multi-page PDF whose physical page k alone has no text layer, the
\* result keeps the structural extractor, page k is the page singled out for
\* OCR, and once OCR recognised text for it ocrPatchedPages = [k] and entry k of
\* pages is the OCR output of physical page k.
C4_ScannedPagePatchedInPlace ==
  \A k \in 1..MaxPages :
    (Returned /\ PdfRun /\ OnlyScannedPage(k) /\ env.canvas /\ env.tesseract) =>
      /\ result.extractor \in StructuralExtractors
      /\ hist.lowQualityPages = <<k>>
      /\ hist.patches # <<>> =>
           /\ result.meta.ocrPatchedPages = <<k>>
           /\ Len(result.meta.pages) >= k
           /\ result.meta.pages[k] \in { Normalize(OcrText(o, k)) : o \in {"long", "short"} }

\* C5: in every result that carries pages, the number of page entries equals
\* the page count (meta.pageCount and the layout's page count) when it is known.
C5_PagesMatchPageCount ==
  (Returned /\ result.hasPageMeta) =>
    /\ result.meta.pageCount > 0 => Len(result.meta.pages) = result.meta.pageCount
    /\ result.meta.layout.present => Len(result.meta.pages) = result.meta.layout.pageCount

\* the join the claim describes: <<<PAGE i>>> and a newline before page i,
\* a blank line between pages; i is the number of the first page of the rest
RECURSIVE TagJoinFrom(_, _)
TagJoinFrom(pages, i) ==
  IF pages = <<>> THEN <<>>
  ELSE <<Tag(i), NL>> \o Head(pages)
       \o (IF Len(pages) > 1 THEN <<NL, NL>> \o TagJoinFrom(Tail(pages), i + 1) ELSE <<>>)

\* C6: in every returned result with pages, pageTaggedText is the tag-per-page
\* join of the final pages, also after the adaptive patch changed pages.
C6_TaggedTextDerivedFromPages ==
  (Returned /\ result.hasPageMeta) =>
    result.meta.pageTaggedText = TagJoinFrom(result.meta.pages, 1)

C6_Witness ==
  /\ Returned /\ result.hasPageMeta
  /\ result.meta.ocrPatchedPages # <<>>
  /\ Len(result.meta.pages) >= 2
  /\ result.meta.pages # hist.prePatchPages

\* line 1549 read off the recorded answer: text of at least 40 trimmed characters
AnswerUsable(answer) ==
  /\ answer.kind = "payload"
  /\ StrLen(Trim(answer.text)) >= MIN_FALLBACK_TEXT_LENGTH

C8_StructuralTextNeverDropped ==
  (PdfRun /\ hist.structuralText # <<>> /\ pc = "done") =>
    (Returned /\ result.text # <<>> /\ StrLen(result.text) > 0)

C8_Witness ==
  /\ Returned /\ PdfRun
  /\ hist.structuralText # <<>>
  /\ ~evaluateSoftPdfAcceptance(hist.structuralText)
  /\ result.extractor = "pdfjs-soft"
  /\ result.text # <<>>

\* C9: with no structural text and no usable remote text the run reaches full
\* OCR, and OCR text of at least 40 usable characters is returned as pdf-ocr
\* with usedOcr = true.
C9_OcrFallbackResult ==
  (pc = "done" /\ PdfRun /\ Ran("pdfjs") /\ hist.structuralText = <<>>
     /\ Ran("server") /\ ~AnswerUsable(hist.server)) =>
    /\ Ran("ocr")
    /\ StrLen(Trim(hist.ocrText)) >= MIN_FALLBACK_TEXT_LENGTH =>
         /\ Returned
         /\ result.extractor = "pdf-ocr"
         /\ result.usedOcr
         /\ result.text = hist.ocrText

C9_Witness ==
  /\ Returned /\ PdfRun
  /\ doc.ok /\ hist.structuralText = <<>>
  /\ hist.server.kind = "null"
  /\ result.extractor = "pdf-ocr" /\ result.usedOcr
  /\ result.text = hist.ocrText

\* C10: when full OCR yields fewer than 40 usable characters the run returns
\* (does not throw) empty text with extractor pdf-unreadable and a trace whose
\* last entry has status warn.
C10_UnreadableTerminal ==
  (PdfRun /\ Ran("ocr") /\ StrLen(Trim(hist.ocrText)) < MIN_FALLBACK_TEXT_LENGTH) =>
    /\ pc = "done" /\ Returned
    /\ result.text = <<>>
    /\ result.extractor = "pdf-unreadable"
    /\ Len(result.trace) > 0
    /\ result.trace[Len(result.trace)].status = "warn"

C10_Witness ==
  /\ Returned /\ PdfRun
  /\ hist.ocrText # <<>>
  /\ result.extractor = "pdf-unreadable"
  /\ result.trace[Len(result.trace)] = Entry("pdf", "no text extracted", "warn")

\* C11: every returned result, on every path, carries the page fields (pages,
\* pageTaggedText, layout) next to text and meta.extractor, meta.usedOcr,
\* meta.quality and meta.trace, also when its text is empty.
C11_ResultStructurallyComplete ==
  Returned =>
    /\ result.hasPageMeta
    /\ result.extractor # ""
    /\ result.usedOcr \in BOOLEAN
    /\ result.quality \in Nat
    /\ Len(result.trace) >= 0

\* C12: readFileContent throws only while it acquires and prepares the input
\* bytes; no later stage lets an exception reach the caller.
C12_ThrowsOnlyOnBufferFailure ==
  pc = "thrown" => hist.stages[Len(hist.stages)] \in {"input", "detect"}

\* the remote service answered with a non-2xx status or a body that is not JSON
RemoteFailed ==
  /\ hist.server.kind = "null"
  /\ hist.server.why \in {"response 404", "response 500", "malformed json"}

\* C13: after a non-2xx status or a malformed JSON body of the remote service
\* the trace holds the remote stage's entry, the run goes on to full OCR and
\* ends with a returned result, never with an exception.
C13_RemoteFailureContinuesToOcr ==
  RemoteFailed =>
    /\ pc \in {"ocr", "pending", "done"}
    /\ \E i \in 1..Len(trace) :
         trace[i] = Entry("server", hist.server.why, hist.server.status)
    /\ pc = "done" =>
         /\ Returned /\ Ran("ocr")
         /\ StageIndex("server") < StageIndex("ocr")
         /\ \E i \in 1..Len(result.trace) : result.trace[i].step = "server"

C13_Witness ==
  /\ RemoteFailed /\ hist.server.why = "malformed json"
  /\ pc = "done" /\ Returned
  /\ result.extractor = "pdf-ocr"

\* the host has no rendering surface or cannot load the recognition engine
OcrAbsent == ~(env.canvas /\ env.tesseract)

HasEntry(tr, step, statuses) ==
  \E i \in 1..Len(tr) : tr[i].step = step /\ tr[i].status \in statuses

\* C14: without the OCR capability every OCR use ends as "OCR unavailable" and
\* the trace says so: full OCR returns no text, adaptive OCR returns no patch,
\* the image path returns empty text.
C14_OcrAbsenceRecorded ==
  OcrAbsent =>
    /\ Ran("ocr") => (hist.ocrText = <<>> /\ HasEntry(trace, "ocr", {"warn"}))
    /\ (Ran("patch") /\ hist.lowQualityPages # <<>>)
         => (hist.patches = <<>> /\ HasEntry(trace, "ocr-adaptive", {"warn"}))
    /\ (Ran("image") /\ pc = "done")
         => (result.text = <<>> /\ HasEntry(result.trace, "image", {"warn", "error"}))

\* the positions of the run at which the orchestrator makes one of its transitions
TracedStages == {"detect", "docx", "text", "pdf", "patch", "accept", "server", "ocr",
                 "image", "binary"}

\* C15: every transition of the orchestrator appends at least one trace entry.
C15_EveryTransitionTraced ==
  [][(pc \in TracedStages) => (Len(trace') > Len(trace))]_vars

\* C16: evaluateSoftPdfAcceptance accepts a text exactly when its trimmed
\* length is at least 200, or at least 120 with more than 40 Cyrillic letters,
\* or at least 120 with more than 30 digits, or at least 70 with at least 20
\* Cyrillic letters and 2 digits, or when length / 80 + 0.4 cyrillic +
\* 0.05 digits + 0.1 uniqueChars is at least 12 (80 times that sum is at
\* least 960); the empty text is never accepted.
C16_AcceptanceRule ==
  (fn.op = "accept" /\ fn.returned) =>
    LET cleaned == Normalize(fn.text)
        length == StrLen(cleaned)
        cyrillic == CyrCount(cleaned)
        digits == DigitCount(cleaned)
        uniqueChars == UniqueChars(cleaned)
    IN  fn.readable <=>
          /\ length > 0
          /\ \/ length >= 200
             \/ (length >= 120 /\ cyrillic > 40)
             \/ (length >= 120 /\ digits > 30)
             \/ (length >= 70 /\ cyrillic >= 20 /\ digits >= 2)
             \/ length + 32 * cyrillic + 4 * digits + 8 * uniqueChars >= 960

C18_ColumnsPermutationInvariant ==
  (fn.op = "columns" /\ Len(fn.outputs) = 2) => fn.outputs[1] = fn.outputs[2]

C18_Witness ==
  /\ fn.op = "columns"
  /\ Len(fn.outputs) = 2
  /\ fn.inputs[1] # fn.inputs[2]
  /\ Len(fn.outputs[1]) = 2
  /\ fn.outputs[1][1].blockCount = 2
  /\ fn.outputs[1] = fn.outputs[2]
  /\ fn.inputs[1][1].x0 + fn.inputs[1][1].x2 > fn.inputs[1][2].x0 + fn.inputs[1][2].x2

\* C19: decodeTextBuffer returns the strict UTF-8 decoding when the buffer is
\* well-formed UTF-8; otherwise it returns the text of the candidate with the
\* highest score, the earliest of the list among equal scores.
C19_StrictUtf8OrBestCandidate ==
  (fn.op = "decode" /\ fn.returned) =>
    LET wellFormed == \A i \in 1..Len(decodeUtf8(fn.bytes)) : decodeUtf8(fn.bytes)[i] # Malformed
        text(i) == decodeUsing(fn.bytes, Candidates[i], FALSE)
        score(i) == scoreTextCandidate(text(i))
    IN  IF wellFormed THEN fn.text = decodeUsing(fn.bytes, "utf-8", TRUE)
        ELSE \E i \in 1..Len(Candidates) :
               /\ fn.text = text(i)
               /\ \A j \in 1..Len(Candidates) : score(j) <= score(i)
               /\ \A j \in 1..(i - 1) : score(j) < score(i)

\* a paragraph written entirely in upper case
UpperParagraph(p) ==
  /\ \E i \in 1..Len(p) : p[i].k = "upper"
  /\ \A i \in 1..Len(p) : p[i].k \in {"upper", "digit", "sp", "nl", "tag"}

DocxRead == pc = "done" /\ Ran("docx") /\ \E i \in 1..Len(hist.paragraphs) : Trim(hist.paragraphs[i]) # <<>>

\* C20 as stated: a DOCX with a non-empty paragraph gives one page, a layout
\* of one page, and every upper-case paragraph is the text of a heading.
C20_UpperParagraphIsHeading ==
  DocxRead =>
    /\ Len(result.meta.pages) = 1
    /\ result.meta.layout.present /\ result.meta.layout.pageCount = 1
    /\ \A i \in 1..Len(hist.paragraphs) :
         UpperParagraph(hist.paragraphs[i]) =>
           \E h \in 1..Len(result.meta.layout.headings[1]) :
             result.meta.layout.headings[1][h] = Trim(hist.paragraphs[i])

\* C20 (amended): a DOCX with a non-empty paragraph gives one page, a layout
\* of one page, and every line of every upper-case paragraph is the text of a
\* heading.
C20_UpperParagraphLinesAreHeadings ==
  DocxRead =>
    /\ Len(result.meta.pages) = 1
    /\ result.meta.layout.present /\ result.meta.layout.pageCount = 1
    /\ \A i \in 1..Len(hist.paragraphs) :
         UpperParagraph(hist.paragraphs[i]) =>
           LET lines == plainLines(hist.paragraphs[i], <<>>)
           IN  \A l \in 1..Len(lines) :
                 \E h \in 1..Len(result.meta.layout.headings[1]) :
                   result.meta.layout.headings[1][h] = lines[l]

C20_Witness ==
  /\ DocxRead
  /\ Len(hist.paragraphs) = 3
  /\ UpperParagraph(hist.paragraphs[1])
  /\ ~UpperParagraph(hist.paragraphs[2])
  /\ UpperParagraph(hist.paragraphs[3])
  /\ Len(result.meta.pages) = 1
  /\ Len(result.meta.layout.headings[1]) = 2

\* C21: a page whose extraction fails becomes an empty page with a warn or
\* error trace entry, and the structural extractor still returns the text
\* and the layout of the other pages.
C21_PageFailureIsolated ==
  (Ran("pdfjs") /\ doc.ok) =>
    LET failed == { p \in 1..Len(doc.layer) : doc.layer[p] = "broken" }
        texts == [p \in 1..Len(doc.layer) |-> PageText(PageBlocks(doc.layer[p], p))]
    IN  /\ pdfResult.pages = CollectPages(texts)
        /\ pdfResult.layout.present
        /\ pdfResult.layout.pageCount = Len(doc.layer)
        /\ failed # {} => HasEntry(trace, "pdfjs", {"warn", "error"})

\* C22: every canvas created for a page during full or adaptive OCR is
\* released again, whether the page succeeded, rendering failed or
\* recognition failed; after an OCR run none is left.
C22_SurfacesReleased ==
  (Ran("patch") \/ Ran("ocr")) => hist.held = 0

\* runs of readFileContent on a file without a name, with or without file
\* magic in its bytes, the PDF one page that is a scan or carries a short text
\* layer
InitLive ==
  /\ pc = "start"
  /\ file \in { f \in Files \cup {NoFile} : f.name = <<>> }
  /\ buffer \in {PdfMagic \o <<45>>, <<104, 105>>, <<>>}
  /\ doc \in { BrokenDoc, [ok |-> TRUE, layer |-> <<"none">>],
                [ok |-> TRUE, layer |-> <<"short">>] }
  /\ (doc.ok => file.given /\ StartsWith(buffer, PdfMagic))
  /\ env \in Envs
  /\ (~file.given => buffer = <<>> /\ env.tesseract)
  /\ trace = <<>>
  /\ detectedKind = "unknown"
  /\ pdfResult = NoPdfResult
  /\ pdfMeta = NoMeta
  /\ result = NoResult
  /\ hist = NoHist
  /\ fn = NoFn

\* in these runs every step that stays enabled is eventually taken: the event
\* loop resumes an async function whose awaited promise has settled
SpecLive == InitLive /\ [][Next]_vars /\ WF_vars(Next)

\* C23: a remote call or a recognition that never completes does not keep the
\* run waiting forever: readFileContent eventually returns or throws.
C23_ReadTerminates ==
  <>(pc \in {"done", "thrown"})

\* C24: a DOCX whose word/document.xml is missing or is not well-formed XML
\* yields an empty text and a trace entry of the docx stage with status error.
C24_DocxFailureRecorded ==
  hist.docx \in {"missing", "malformed"} =>
    /\ Returned /\ result.text = <<>>
    /\ HasEntry(result.trace, "docx", {"error"})

\* C25: the tables are exactly the maximal runs of at least three consecutive
\* lines that each hold at least three blocks with non-empty text, one table
\* per run in order; a run of one or two such lines gives no table; the rows
\* of a table hold the blocks of its lines in ascending X.
C25_TablesAreRunsOfThree ==
  (fn.op = "tables" /\ fn.done) =>
    LET lines == fn.lines
        n == Len(lines)
        Q(i) == Cardinality({k \in 1..Len(lines[i].blocks) :
                               lines[i].blocks[k].text \notin {"", " "}}) >= 3
        Runs == { r \in (1..n) \X (1..n) :
                    /\ r[1] <= r[2]
                    /\ \A i \in r[1]..r[2] : Q(i)
                    /\ r[1] = 1 \/ ~Q(r[1] - 1)
                    /\ r[2] = n \/ ~Q(r[2] + 1) }
        Long == { r \in Runs : r[2] - r[1] + 1 >= 3 }
        IsTableOf(t, r) ==
          /\ Len(t.rows) = r[2] - r[1] + 1
          /\ \A j \in 1..Len(t.rows) :
               LET cells == t.rows[j].cells
                   blocks == lines[r[1] + j - 1].blocks
               IN  /\ Len(cells) = Len(blocks)
                   /\ Range(cells) = Range(blocks)
                   /\ \A k \in 1..(Len(cells) - 1) : cells[k].x <= cells[k + 1].x
    IN  /\ Len(fn.tables) = Cardinality(Long)
        /\ \A r \in Long : \E t \in 1..Len(fn.tables) : IsTableOf(fn.tables[t], r)

\* C26: a line is a heading exactly when its share of upper-case letters
\* exceeds 0.65, or it starts with a multi-level numeric prefix followed by
\* whitespace, or its significant characters are at most 32 and form a
\* capitalized word; a line with a numeric prefix is a heading also when
\* nothing else on it is a letter.
C26_HeadingRule ==
  (fn.op = "headings" /\ fn.done) =>
    LET text == fn.lines[1]
        n == Len(text)
        Of(set) == Cardinality({i \in 1..n : text[i] \in set})
        significant == LET Kept(c) == c \notin {"1", " ", "."} IN SelectSeq(text, Kept)
        first == CHOOSE i \in 1..n : text[i] # " " /\ \A j \in 1..(i - 1) : text[j] = " "
        \* digits, then groups of a dot and digits, then a blank
        Prefix(i, j) ==
          /\ i < j /\ j <= n /\ text[i] = "1" /\ text[j - 1] = "1" /\ text[j] = " "
          /\ \A k \in i..(j - 1) : text[k] \in {"1", "."}
          /\ \A k \in i..(j - 2) : text[k] = "." => text[k + 1] = "1"
          /\ \E k \in (j + 1)..n : text[k] # " "
        Numbered == \E i \in 1..n : text[i] # " " /\ i = first /\ \E j \in 1..n : Prefix(i, j)
        UpperShare == 20 * Of({"A", "YA"}) > 13 * Of({"A", "a", "YA", "ya"})
        Capitalized ==
          /\ Len(significant) >= 2 /\ Len(significant) <= 32
          /\ significant[1] \in {"A", "YA"}
          /\ \A i \in 2..Len(significant) : significant[i] \in {"A", "a"}
    IN  (fn.headings = <<text>>) <=> (UpperShare \/ Numbered \/ Capitalized)

\* C27: the column written to a block is the index of the cluster its
\* horizontal center was grouped into, also when the bounds of columns overlap.
C27_ColumnIsClusterOfCenter ==
  (fn.op = "columns" /\ fn.outputs # <<>>) =>
    LET blocks == fn.inputs[1]
        clusters == clusterEntries(sortByCenter(blocks), <<>>, fn.pageWidth)
    IN  \A i \in 1..Len(blocks) :
          \E k \in 1..Len(clusters) :
            /\ \E j \in 1..Len(clusters[k]) : clusters[k][j] = blocks[i]
            /\ fn.annotated[1][i] = k - 1

\* the trace longer continues the trace shorter
Continues(longer, shorter) ==
  Len(longer) >= Len(shorter) /\ SubSeq(longer, 1, Len(shorter)) = shorter

\* the stages of a PDF run in the order in which they execute
StageRank(step) ==
  CASE step = "pdfjs" -> 1
    [] step = "ocr-adaptive" -> 2
    [] step = "server" -> 3
    [] step = "ocr" -> 4
    [] step = "pdf" -> 5
    [] OTHER -> 0

\* C28 as stated: every step of a run only appends to the trace, a returned
\* result and its trace stay as they were returned, and the entries of the
\* stages stand in the order pdfjs, ocr-adaptive, server, ocr, pdf.
C28_AppendOnlyOrderedByStage ==
  [][ /\ Continues(trace', trace)
      /\ Returned => result' = result
      /\ (~Returned /\ result'.returned) => result'.trace = trace'
      /\ \A i, j \in 1..Len(trace') :
           i < j => StageRank(trace'[i].step) <= StageRank(trace'[j].step) ]_vars

\* C28 amended: as above, but the entries of step pdfjs are the one written by
\* the structural pass, which precedes every entry of the later stages, and
\* possibly the warning of the acceptance step, which is the last entry of
\* the trace; all other entries stand in the order of the stages.
C28_AppendOnlyInOrderOfExecution ==
  [][ /\ Continues(trace', trace)
      /\ Returned => result' = result
      /\ (~Returned /\ result'.returned) => result'.trace = trace'
      /\ \A i, j \in 1..Len(trace') :
           i < j =>
             \/ StageRank(trace'[i].step) <= StageRank(trace'[j].step)
             \/ /\ trace'[j].step = "pdfjs" /\ trace'[j].status = "warn"
                /\ j = Len(trace')
                /\ trace'[i].step = "ocr-adaptive"
                /\ \E k \in 1..(i - 1) : trace'[k].step = "pdfjs" ]_vars

\* a returned result whose trace holds entries of the structural pass, the
\* remote service, full OCR and the final pdf entry (a run that gets past
\* acceptance has no page to patch, hence no entry of adaptive OCR)
C28_Witness ==
  /\ pc = "done" /\ Returned
  /\ result.trace = trace
  /\ result.extractor = "pdf-unreadable"
  /\ \A step \in {"pdfjs", "server", "ocr", "pdf"} :
       HasEntry(result.trace, step, {"info", "warn", "error"})
  /\ result.trace[Len(result.trace)].step = "pdf"

\* C29: a returned result has usedOcr exactly when its extractor is pdf-ocr
\* or image-ocr; a structural result with pages replaced by adaptive OCR has
\* usedOcr = FALSE.
C29_UsedOcrIffOcrExtractor ==
  Returned =>
    /\ result.usedOcr <=> result.extractor \in {"pdf-ocr", "image-ocr"}
    /\ (result.extractor \in StructuralExtractors /\ result.meta.ocrPatchedPages # <<>>)
         => ~result.usedOcr

\* C30: whatever the order of loader calls and of load completions, each
\* loader starts its load at most once, a call that finds a promise returns
\* that promise without starting a load, and a failed load stays failed:
\* every later call gets the same failed promise.
C30_LoadStartedOnceFailureKept ==
  [][ fn'.op = "loaders" =>
        \A l \in {"pdfjs", "jszip", "ocr"} :
          /\ fn'.started[l] <= 1
          /\ fn.promise[l] # "unset" =>
                /\ fn'.started[l] = fn.started[l]
                /\ fn'.promise[l] # "unset"
          /\ fn.promise[l] = "failed" => fn'.promise[l] = "failed"
          /\ (Len(fn'.calls) > Len(fn.calls) /\ fn'.calls[Len(fn'.calls)].loader = l
                /\ fn.promise[l] = "failed")
               => fn'.calls[Len(fn'.calls)].returned \in {"promise", "null"} ]_vars

\* a loader called three times: the first call started the load, the second
\* shared the pending promise, the third came after the failure
C30_Witness ==
  /\ fn.op = "loaders"
  /\ \E l \in {"pdfjs", "ocr"} :
       /\ Len(fn.calls) = 3
       /\ \A i \in 1..3 : fn.calls[i].loader = l /\ fn.calls[i].returned = "promise"
       /\ fn.calls[1].found = "unset"
       /\ fn.calls[2].found = "pending"
       /\ fn.calls[3].found = "failed"
       /\ fn.started[l] = 1
       /\ fn.promise[l] = "failed"

====
